---- MODULE Spec2Model ----
(***************************************************************************)
(* yt-analyzer: the Job ("Analysis") lifecycle, the analyze-video          *)
(* orchestrator with its generate-sections step, generateSection with its  *)
(* provider fallback, and the routes and the transcript handoff that       *)
(* trigger a run.                                                          *)
(*                                                                         *)
(* The specifications share the variables:                                 *)
(*   Spec        the whole lifecycle; step.run('generate-sections') is one *)
(*               step of the orchestrator;                                 *)
(*   SpecRun     one run of one Job, the 8 tasks of generate-sections      *)
(*               interleaved at their awaits;                              *)
(*   SpecGen     one task: generateSection on every sequence of provider   *)
(*               responses, then its upsert;                               *)
(*   SpecUpsert  two upserts on a given table;                             *)
(*   SpecRerun   a second run of a Job that has rows of a first one;       *)
(*   SpecChain   extractTranscriptWithFallback;                            *)
(*   SpecLoad    the load of the analysis module, then one task;           *)
(*   SpecPrompt  the prompt builders on two transcripts;                   *)
(*   SpecSchema  the section validators;                                   *)
(*   SpecRate    rateLimit and the rate limit check of the ingest route;   *)
(*   SpecRetry   retry;                                                    *)
(*   SpecPoll    the polling effect of the analysis page;                  *)
(*   SpecLive    run requests and executions of one Job under weak         *)
(*               fairness of the route, the queue and the orchestrator;    *)
(*   SpecIngest  ingest calls for a Video that is already known;           *)
(*   SpecView    the export endpoint and the tab content of the page.      *)
(***************************************************************************)
EXTENDS Bags, FiniteSets, Integers, Sequences, TLC

(***************************************************************************)
(* Bounds                                                                  *)
(***************************************************************************)
MaxJobs == 2
MaxRuns == 2
MaxCalls == 3

Videos == { 1 }

(***************************************************************************)
(* Program constants                                                       *)
(***************************************************************************)
SECTION_TYPES ==
  << "OVERVIEW", "HEROS_JOURNEY", "EMOTION_ROLLERCOASTER", "MONEY_SHOTS",
     "TITLE_DECODE", "THUMBNAIL_XRAY", "CONTENT_HIGHLIGHTS", "FULL_ARTICLE" >>

SectionType == { SECTION_TYPES[i] : i \in 1..Len(SECTION_TYPES) }

criticalSectionsShort == << "OVERVIEW", "HEROS_JOURNEY" >>

criticalSections == << "OVERVIEW", "HEROS_JOURNEY", "EMOTION_ROLLERCOASTER" >>

groqModels == << "llama-3.1-70b-versatile", "llama-3.1-8b-instant", "mixtral-8x7b-32768" >>

AnalysisStatus == { "PENDING", "RUNNING", "DONE", "FAILED" }

IndexOf(t) == CHOOSE i \in 1..Len(SECTION_TYPES) : SECTION_TYPES[i] = t

Includes(seq, x) == \E i \in 1..Len(seq) : seq[i] = x

VARIABLES
  video,       \* Video rows: video[v] iff the Video exists
  transcript,  \* Transcript rows: transcript[v] iff Video v has a Transcript
  analysis,    \* Analysis rows in creation order: [videoId, status, error]
  sections,    \* AnalysisSection rows, a bag of [analysisId, type, json]
  events,      \* events sent to the queue and not yet consumed
  runs,        \* executions of analyzeVideo
  handlers,    \* route handlers and extractTranscript executions in flight
  delivered,   \* 'video/analyze' deliveries so far
  called,      \* route calls so far
  cfg,         \* which provider clients the analysis module holds
  gen,         \* the task of SpecGen: [sectionType, rs, task]
  chain,       \* the invocation of extractTranscriptWithFallback of SpecChain
  pure         \* the arguments and the result of the library function applied

vars == << video, transcript, analysis, sections, events, runs, handlers,
           delivered, called, cfg, gen, chain, pure >>

\* What no step of the lifecycle changes.
fixed == << cfg, gen, chain, pure >>

(***************************************************************************)
(* generateSection                                                         *)
(***************************************************************************)
\* What a chat.completions.create call can come back with: it throws, it has
\* no content, its content is not JSON, or its content is a JSON document.  A
\* document is named by the schema it conforms to ("none": no schema).
Other(t) == IF t = "OVERVIEW" THEN "TITLE_DECODE" ELSE "OVERVIEW"

Responses(t) ==
  { [kind |-> "throw", doc |-> "none"],
    [kind |-> "empty", doc |-> "none"],
    [kind |-> "text", doc |-> "none"] }
  \cup { [kind |-> "json", doc |-> d] : d \in { t, Other(t), "none" } }

SchemaAcceptsAny(sectionType, doc) == TRUE

\* sectionSchemas[sectionType].parse(json)
SchemaAccepts(sectionType, doc) == doc = sectionType

\* One provider call with the parse-and-validate protocol that follows it.
Attempt(sectionType, resp) ==
  IF resp.kind = "throw" THEN [ok |-> FALSE, json |-> "none", error |-> "ProviderError"]
  ELSE IF resp.kind = "empty" THEN [ok |-> FALSE, json |-> "none", error |-> "NoContent"]
  ELSE IF resp.kind = "text" THEN [ok |-> FALSE, json |-> "none", error |-> "ParseError"]
  ELSE IF ~SchemaAccepts(sectionType, resp.doc)
       THEN [ok |-> FALSE, json |-> "none", error |-> "ValidationError"]
  ELSE [ok |-> TRUE, json |-> resp.doc, error |-> "none"]

PlanSecondaryFirst(c) ==
  IF c.version = "retry" THEN << "gpt-4o", "gpt-4o" >>
  ELSE (IF c.groq THEN groqModels ELSE << >>)
       \o (IF c.openai THEN << "gpt-4o" >> ELSE << >>)

PlanThreeAttempts(c) ==
  IF c.version = "retry" THEN << "gpt-4o", "gpt-4o", "gpt-4o" >>
  ELSE (IF c.openai THEN << "gpt-4o" >> ELSE << >>)
       \o (IF c.groq THEN groqModels ELSE << >>)

\* The calls generateSection makes, in order.  version "fallback": the primary
\* provider once, then each secondary model; version "retry": the primary
\* provider twice.
Plan(c) ==
  IF c.version = "retry" THEN << "gpt-4o", "gpt-4o" >>
  ELSE (IF c.openai THEN << "gpt-4o" >> ELSE << >>)
       \o (IF c.groq THEN groqModels ELSE << >>)

\* The module throws at load unless a provider client exists.
Initializes(c) ==
  IF c.version = "retry" THEN c.openai ELSE c.openai \/ c.groq

Configs ==
  { c \in [version : { "retry", "fallback" }, openai : BOOLEAN, groq : BOOLEAN] :
      /\ Initializes(c)
      /\ c.version = "retry" => ~c.groq }

ErrorKinds == { "none", "ProviderError", "NoContent", "ParseError", "ValidationError" }

\* chat.completions.create({ model, messages: [{ role: 'system', content: prompt }] }):
\* the request names the model and carries the prompt of the section; fix is
\* the error text added to the prompt ("none": the prompt as built at entry).
Request(model) == [model |-> model, fix |-> "none"]

generateSectionFirstError(c, sectionType, rs) ==
  LET plan == Plan(c)
      requests == [k \in 1..Len(plan) |-> Request(plan[k])]
      try[i \in 1..(Len(plan) + 1), lastError \in ErrorKinds] ==
        IF i > Len(plan)
        THEN [ok |-> FALSE, json |-> "none",
              error |-> IF lastError = "none" THEN "Generic" ELSE lastError,
              calls |-> i - 1, requests |-> requests]
        ELSE LET a == Attempt(sectionType, rs[i])
             IN IF a.ok
                THEN [ok |-> TRUE, json |-> a.json, error |-> "none", calls |-> i,
                      requests |-> SubSeq(requests, 1, i)]
                ELSE try[i + 1, IF lastError = "none" THEN a.error ELSE lastError]
  IN try[1, "none"]

\* lastError is null before the first call; the calls of the plan are made in
\* order until one succeeds; with none left, lastError (or the generic error
\* when no call was made) is thrown.
generateSection(c, sectionType, rs) ==
  LET plan == Plan(c)
      requests == [k \in 1..Len(plan) |-> Request(plan[k])]
      try[i \in 1..(Len(plan) + 1), lastError \in ErrorKinds] ==
        IF i > Len(plan)
        THEN [ok |-> FALSE, json |-> "none",
              error |-> IF lastError = "none" THEN "Generic" ELSE lastError,
              calls |-> i - 1, requests |-> requests]
        ELSE LET a == Attempt(sectionType, rs[i])
             IN IF a.ok
                THEN [ok |-> TRUE, json |-> a.json, error |-> "none", calls |-> i,
                      requests |-> SubSeq(requests, 1, i)]
                ELSE try[i + 1, a.error]
  IN try[1, "none"]

MaxCallsPerSection == 1 + Len(groqModels)

ResponseSeqs(t) == [1..MaxCallsPerSection -> Responses(t)]

\* Every result generateSection can have, as << configuration, task type, result >>.
GenerateResults ==
  UNION { { << c, t, generateSection(c, t, rs) >> : rs \in ResponseSeqs(t) } :
            c \in Configs, t \in SectionType }

GenerateOutcomes(c, t) == { x[3] : x \in { y \in GenerateResults : y[1] = c /\ y[2] = t } }

(***************************************************************************)
(* extractTranscriptWithFallback                                           *)
(***************************************************************************)
\* The providers in the order of the function body.
ChainOrder ==
  << "supadata", "groq-whisper", "assemblyai", "youtube-transcript", "openai-whisper" >>

Providers == { ChainOrder[i] : i \in 1..Len(ChainOrder) }

\* process.env: which of SUPADATA_API_KEY, GROQ_API_KEY, ASSEMBLYAI_API_KEY,
\* OPENAI_API_KEY are set.
Envs == [supadata : BOOLEAN, groq : BOOLEAN, assemblyai : BOOLEAN, openai : BOOLEAN]

\* What a provider call can come back with: it throws (network, download),
\* the provider reports an error, the text is empty, or there is text.
ChainResponses == { "throw", "error", "empty", "text" }

TextOf(resp) == IF resp = "text" THEN "words" ELSE ""

HasCredentialAssumed(env, p) == TRUE

\* The condition guarding the step of provider p.
HasCredential(env, p) ==
  IF p = "supadata" THEN env.supadata
  ELSE IF p = "groq-whisper" THEN env.groq
  ELSE IF p = "assemblyai" THEN env.assemblyai
  ELSE IF p = "openai-whisper" THEN env.openai
  ELSE TRUE

AfterSwapped(p) ==
  IF p = "supadata" THEN "assemblyai"
  ELSE IF p = "assemblyai" THEN "groq-whisper"
  ELSE IF p = "groq-whisper" THEN "youtube-transcript"
  ELSE "openai-whisper"

\* The step entered when the step of provider p ends without a return.
After(p) ==
  IF p = "supadata" THEN "groq-whisper"
  ELSE IF p = "groq-whisper" THEN "assemblyai"
  ELSE IF p = "assemblyai" THEN "youtube-transcript"
  ELSE "openai-whisper"

OutcomeCaptionsFallThrough(p, resp) ==
  IF p = "youtube-transcript" THEN "next"
  ELSE IF resp \in { "throw", "error" }
  THEN (IF p = "openai-whisper" THEN "throw" ELSE "next")
  ELSE IF resp = "empty" /\ p \in { "supadata", "assemblyai" } THEN "next"
  ELSE "return"

\* What the attempt of provider p does with the response: "return" the text,
\* go on to the "next" step, or "throw" out of the function.  supadata and
\* assemblyai return only a non-empty text; the three others return
\* transcription.text or the joined captions as they are.
Outcome(p, resp) ==
  IF resp \in { "throw", "error" }
  THEN (IF p = "openai-whisper" THEN "throw" ELSE "next")
  ELSE IF resp = "empty" /\ p \in { "supadata", "assemblyai" } THEN "next"
  ELSE "return"

NoChain ==
  [env |-> [supadata |-> FALSE, groq |-> FALSE, assemblyai |-> FALSE, openai |-> FALSE],
   rs |-> [p \in Providers |-> "throw"], pc |-> "idle", attempts |-> << >>,
   text |-> "", source |-> "none", error |-> "none"]

(***************************************************************************)
(* Storage                                                                 *)
(***************************************************************************)
NULL == [text |-> FALSE, failed |-> << >>]

\* `Critical sections failed: ${names.join(', ')}`
ErrorText(names) == [text |-> TRUE, failed |-> names]

Row(analysisId, type, json) == [analysisId |-> analysisId, type |-> type, json |-> json]

RowsOf(rows, analysisId, type) ==
  { row \in BagToSet(rows) : row.analysisId = analysisId /\ row.type = type }

UpsertKeepsExisting(rows, analysisId, type, json) ==
  IF RowsOf(rows, analysisId, type) # {} THEN rows
  ELSE rows (+) SetToBag({ Row(analysisId, type, json) })

UpsertCreates(rows, analysisId, type, json) ==
  rows (+) SetToBag({ [analysisId |-> analysisId, type |-> type, json |-> json] })

\* prisma.analysisSection.upsert({ where: { analysisId_type }, update, create })
Upsert(rows, analysisId, type, json) ==
  IF RowsOf(rows, analysisId, type) # {}
  THEN LET set(row) == IF row.analysisId = analysisId /\ row.type = type
                       THEN [row EXCEPT !.json = json] ELSE row
       IN BagOfAll(set, rows)
  ELSE rows (+) SetToBag({ Row(analysisId, type, json) })

\* prisma.analysis.update({ where: { id }, data })
SetStatus(rows, id, status) == [rows EXCEPT ![id].status = status]

SetFailed(rows, id, names) ==
  [rows EXCEPT ![id].status = "FAILED", ![id].error = ErrorText(names)]

\* prisma.analysis.create({ data: { videoId, status: 'PENDING' } })
CreateAnalysis(rows, v) ==
  Append(rows, [videoId |-> v, status |-> "PENDING", error |-> NULL])

AnalysesOf(v) == { id \in DOMAIN analysis : analysis[id].videoId = v }

Latest(ids) == CHOOSE id \in ids : \A other \in ids : other <= id

Put(bag, e) == bag (+) SetToBag({ e })

Take(bag, e) == bag (-) SetToBag({ e })

AnalyzeEvent(id) == [name |-> "video/analyze", id |-> id]

ExtractEvent(v) == [name |-> "video/extract-transcript", id |-> v]

Handler(route, pc, id) == [route |-> route, pc |-> pc, id |-> id]

(***************************************************************************)
(* POST /api/analysis/[id]/run                                             *)
(***************************************************************************)
HasTranscriptUnchecked(id) == TRUE

\* analysis.video.transcript of a findUnique with include
HasTranscript(id) == transcript[analysis[id].videoId]

AlreadyRunning(id) == analysis[id].status = "RUNNING"

RunPOST(id) ==
  /\ called < MaxCalls
  /\ id \in DOMAIN analysis
  /\ called' = called + 1
  /\ IF ~HasTranscript(id)
     THEN /\ handlers' = Put(handlers, Handler("run", "400 Transcript required before analysis", id))
          /\ UNCHANGED events
     ELSE IF AlreadyRunning(id)
     THEN UNCHANGED << events, handlers >>
     ELSE /\ events' = Put(events, AnalyzeEvent(id))
          /\ handlers' = Put(handlers, Handler("run", "update-running", id))
  /\ UNCHANGED << video, transcript, analysis, sections, runs, delivered, fixed >>

RunUpdate(h) ==
  /\ h.route = "run" /\ h.pc = "update-running"
  /\ analysis' = SetStatus(analysis, h.id, "RUNNING")
  /\ handlers' = Take(handlers, h)
  /\ UNCHANGED << video, transcript, sections, events, runs, delivered, called, fixed >>

\* The 400 'Transcript required before analysis' is returned.
Respond(h) ==
  /\ h.route = "run" /\ h.pc = "400 Transcript required before analysis"
  /\ handlers' = Take(handlers, h)
  /\ UNCHANGED << video, transcript, analysis, sections, events, runs, delivered, called, fixed >>

(***************************************************************************)
(* POST /api/videos/ingest                                                 *)
(***************************************************************************)
ReturnsExistingAnyStatus(v) == AnalysesOf(v) # {}

ReturnsExisting(v) ==
  /\ AnalysesOf(v) # {}
  /\ analysis[Latest(AnalysesOf(v))].status # "FAILED"

\* The route after its rate limit check.
IngestAdmitted(v) ==
  IF ~video[v]
  THEN /\ Len(analysis) < MaxJobs
       /\ video' = [video EXCEPT ![v] = TRUE]
       /\ analysis' = CreateAnalysis(analysis, v)
       /\ events' = Put(events, ExtractEvent(v))
       /\ UNCHANGED handlers
  ELSE IF ReturnsExisting(v)
  THEN UNCHANGED << video, analysis, events, handlers >>
  ELSE /\ Len(analysis) < MaxJobs
       /\ analysis' = CreateAnalysis(analysis, v)
       /\ handlers' = Put(handlers, Handler("ingest", "find-transcript", Len(analysis) + 1))
       /\ UNCHANGED << video, events >>

\* A request the rate limit admits: fewer than 5 requests are made (MaxCalls).
IngestPOST(v) ==
  /\ called < MaxCalls
  /\ called' = called + 1
  /\ IngestAdmitted(v)
  /\ UNCHANGED << transcript, sections, runs, delivered, fixed >>

\* prisma.transcript.findUnique({ where: { videoId } })
ExistingTranscript(v) == transcript[v]

IngestFindTranscript(h) ==
  /\ h.route = "ingest" /\ h.pc = "find-transcript"
  /\ IF ExistingTranscript(analysis[h.id].videoId)
     THEN /\ events' = Put(events, AnalyzeEvent(h.id))
          /\ handlers' = Put(Take(handlers, h), Handler("ingest", "update-running", h.id))
     ELSE /\ events' = Put(events, ExtractEvent(analysis[h.id].videoId))
          /\ handlers' = Take(handlers, h)
  /\ UNCHANGED << video, transcript, analysis, sections, runs, delivered, called, fixed >>

IngestUpdate(h) ==
  /\ h.route = "ingest" /\ h.pc = "update-running"
  /\ analysis' = SetStatus(analysis, h.id, "RUNNING")
  /\ handlers' = Take(handlers, h)
  /\ UNCHANGED << video, transcript, sections, events, runs, delivered, called, fixed >>

(***************************************************************************)
(* POST /api/videos/[videoId]/transcript                                   *)
(***************************************************************************)
TranscriptPOST(v) ==
  /\ video[v]
  /\ ~transcript[v]
  /\ transcript' = [transcript EXCEPT ![v] = TRUE]
  /\ UNCHANGED << video, analysis, sections, events, runs, handlers, delivered, called, fixed >>

(***************************************************************************)
(* extractTranscript ('video/extract-transcript')                          *)
(***************************************************************************)
\* step 'extract-transcript': the chain returns a result or throws.
ExtractTranscript(e, ok) ==
  /\ BagIn(e, events) /\ e.name = "video/extract-transcript"
  /\ events' = Take(events, e)
  /\ handlers' = IF ok THEN Put(handlers, Handler("extract", "save-transcript", e.id))
                 ELSE handlers
  /\ UNCHANGED << video, transcript, analysis, sections, runs, delivered, called, fixed >>

SaveTranscriptUnsaved(h) ==
  /\ h.route = "extract" /\ h.pc = "save-transcript"
  /\ handlers' = Put(Take(handlers, h), Handler("extract", "trigger-analysis", h.id))
  /\ UNCHANGED << video, transcript, analysis, sections, events, runs, delivered, called, fixed >>

SaveTranscriptOverExisting(h) ==
  /\ h.route = "extract" /\ h.pc = "save-transcript"
  /\ transcript' = [transcript EXCEPT ![h.id] = TRUE]
  /\ handlers' = Put(Take(handlers, h), Handler("extract", "trigger-analysis", h.id))
  /\ UNCHANGED << video, analysis, sections, events, runs, delivered, called, fixed >>

\* step 'save-transcript': prisma.transcript.create throws on an existing row.
SaveTranscript(h) ==
  /\ h.route = "extract" /\ h.pc = "save-transcript"
  /\ IF transcript[h.id]
     THEN /\ handlers' = Take(handlers, h)
          /\ UNCHANGED transcript
     ELSE /\ transcript' = [transcript EXCEPT ![h.id] = TRUE]
          /\ handlers' = Put(Take(handlers, h), Handler("extract", "trigger-analysis", h.id))
  /\ UNCHANGED << video, analysis, sections, events, runs, delivered, called, fixed >>

PendingOf(v) == { id \in AnalysesOf(v) : analysis[id].status = "PENDING" }

\* step 'trigger-analysis', up to the send.
TriggerAnalysis(h) ==
  /\ h.route = "extract" /\ h.pc = "trigger-analysis"
  /\ IF PendingOf(h.id) # {}
     THEN /\ events' = Put(events, AnalyzeEvent(Latest(PendingOf(h.id))))
          /\ handlers' = Put(Take(handlers, h),
                             Handler("extract", "update-running", Latest(PendingOf(h.id))))
     ELSE /\ handlers' = Take(handlers, h)
          /\ UNCHANGED events
  /\ UNCHANGED << video, transcript, analysis, sections, runs, delivered, called, fixed >>

\* step 'trigger-analysis', the update after the send.
TriggerUpdate(h) ==
  /\ h.route = "extract" /\ h.pc = "update-running"
  /\ analysis' = SetStatus(analysis, h.id, "RUNNING")
  /\ handlers' = Take(handlers, h)
  /\ UNCHANGED << video, transcript, sections, events, runs, delivered, called, fixed >>

(***************************************************************************)
(* analyzeVideo ('video/analyze')                                          *)
(***************************************************************************)
Task(st, json, error) == [st |-> st, json |-> json, error |-> error]

NotLaunched == [t \in SectionType |-> Task("idle", "none", "none")]

Run(analysisId, pc) ==
  [analysisId |-> analysisId, pc |-> pc, tasks |-> NotLaunched, results |-> << >>]

\* step 'fetch-analysis' and the two checks after it; a failed check throws and
\* ends the execution.  The queue delivers at least once: redeliver leaves the
\* event for another delivery.
FetchAnalysis(e, redeliver) ==
  /\ BagIn(e, events) /\ e.name = "video/analyze"
  /\ delivered < MaxRuns
  /\ delivered' = delivered + 1
  /\ events' = IF redeliver THEN events ELSE Take(events, e)
  /\ runs' = IF e.id \notin DOMAIN analysis THEN runs
             ELSE IF ~HasTranscript(e.id) THEN runs
             ELSE Put(runs, Run(e.id, "update-status-running"))
  /\ UNCHANGED << video, transcript, analysis, sections, handlers, called, fixed >>

UpdateStatusRunningSkipped(r) ==
  /\ r.pc = "update-status-running"
  /\ runs' = Put(Take(runs, r), [r EXCEPT !.pc = "generate-sections"])
  /\ UNCHANGED << video, transcript, analysis, sections, events, handlers, delivered, called, fixed >>

\* step 'update-status-running'
UpdateStatusRunning(r) ==
  /\ r.pc = "update-status-running"
  /\ analysis' = SetStatus(analysis, r.analysisId, "RUNNING")
  /\ runs' = Put(Take(runs, r), [r EXCEPT !.pc = "generate-sections"])
  /\ UNCHANGED << video, transcript, sections, events, handlers, delivered, called, fixed >>

\* The { sectionType, success, error } a settled task returns.
ResultOf(t, task) ==
  [sectionType |-> t, success |-> task.st = "fulfilled", error |-> task.error]

\* The array Promise.all resolves to, in the order of SECTION_TYPES.
Results(tasks) ==
  [i \in 1..Len(SECTION_TYPES) |-> ResultOf(SECTION_TYPES[i], tasks[SECTION_TYPES[i]])]

Settled(task) == task.st \in { "fulfilled", "caught" }

SettledOrRejected(tasks) ==
  \/ \E t \in SectionType : tasks[t].st = "caught"
  \/ \A t \in SectionType : tasks[t].st = "fulfilled"

\* Promise.all over promises that never reject: every task has settled.
AllSettled(tasks) == \A t \in SectionType : Settled(tasks[t])

criticalFailureErrors(results) ==
  LET failed(i) == Includes(criticalSections, results[i].sectionType) /\ ~results[i].success
      RECURSIVE from(_)
      from(i) == IF i > Len(results) THEN << >>
                 ELSE (IF failed(i) THEN << results[i].error >> ELSE << >>) \o from(i + 1)
  IN from(1)

firstCriticalFailure(results) ==
  LET failing == { i \in 1..Len(results) :
                     /\ \E k \in 1..Len(criticalSections) : criticalSections[k] = results[i].sectionType
                     /\ ~results[i].success }
  IN IF failing = {} THEN << >>
     ELSE << results[CHOOSE i \in failing : \A j \in failing : i <= j].sectionType >>

\* sections.filter(r => criticalSections.includes(r.sectionType) && !r.success)
\*         .map(f => f.sectionType)
criticalFailures(results) ==
  LET failed(i) == Includes(criticalSections, results[i].sectionType) /\ ~results[i].success
      RECURSIVE from(_)
      from(i) == IF i > Len(results) THEN << >>
                 ELSE (IF failed(i) THEN << results[i].sectionType >> ELSE << >>) \o from(i + 1)
  IN from(1)

\* step 'update-status-failed', taken when criticalFailures.length > 0
UpdateStatusFailed(r) ==
  /\ r.pc = "check-critical"
  /\ Len(criticalFailures(r.results)) > 0
  /\ analysis' = SetFailed(analysis, r.analysisId, criticalFailures(r.results))
  /\ runs' = Take(runs, r)
  /\ UNCHANGED << video, transcript, sections, events, handlers, delivered, called, fixed >>

\* step 'update-status-done'
UpdateStatusDone(r) ==
  /\ r.pc = "check-critical"
  /\ ~(Len(criticalFailures(r.results)) > 0)
  /\ analysis' = SetStatus(analysis, r.analysisId, "DONE")
  /\ runs' = Take(runs, r)
  /\ UNCHANGED << video, transcript, sections, events, handlers, delivered, called, fixed >>

(***************************************************************************)
(* step 'generate-sections', task by task                                  *)
(***************************************************************************)
\* SECTION_TYPES.map(async ...): every task runs up to its first await.
LaunchTasks(r) ==
  /\ r.pc = "generate-sections"
  /\ runs' = Put(Take(runs, r),
                 [r EXCEPT !.pc = "await-all",
                           !.tasks = [t \in SectionType |-> Task("generating", "none", "none")]])
  /\ UNCHANGED << video, transcript, analysis, sections, events, handlers, delivered, called, fixed >>

\* await generateSection(...) returns or throws.
AfterGenerate(task, g) ==
  IF g.ok THEN Task("upserting", g.json, "none")
  ELSE Task("caught", "none", "generateSection")

TaskGenerated(r, t, g) ==
  /\ r.pc = "await-all"
  /\ r.tasks[t].st = "generating"
  /\ g \in GenerateOutcomes(cfg, t)
  /\ runs' = Put(Take(runs, r), [r EXCEPT !.tasks[t] = AfterGenerate(r.tasks[t], g)])
  /\ UNCHANGED << video, transcript, analysis, sections, events, handlers, delivered, called, fixed >>

AfterUpsertUnchecked(task, stored) == [st |-> "fulfilled", json |-> task.json, error |-> "none"]

\* await prisma.analysisSection.upsert(...) returns or throws.
AfterUpsert(task, stored) ==
  IF stored THEN Task("fulfilled", task.json, "none")
  ELSE Task("caught", "none", "upsert")

TaskUpsert(r, t, stored) ==
  /\ r.pc = "await-all"
  /\ r.tasks[t].st = "upserting"
  /\ sections' = IF stored THEN Upsert(sections, r.analysisId, t, r.tasks[t].json)
                 ELSE sections
  /\ runs' = Put(Take(runs, r), [r EXCEPT !.tasks[t] = AfterUpsert(r.tasks[t], stored)])
  /\ UNCHANGED << video, transcript, analysis, events, handlers, delivered, called, fixed >>

\* const results = await Promise.all(sectionPromises); return results
ReturnSections(r) ==
  /\ r.pc = "await-all"
  /\ AllSettled(r.tasks)
  /\ runs' = Put(Take(runs, r),
                 [r EXCEPT !.pc = "check-critical",
                           !.tasks = NotLaunched,
                           !.results = Results(r.tasks)])
  /\ UNCHANGED << video, transcript, analysis, sections, events, handlers, delivered, called, fixed >>

(***************************************************************************)
(* step 'generate-sections' as one step of the orchestrator                *)
(***************************************************************************)
OkJson(t) == { g.json : g \in { o \in GenerateOutcomes(cfg, t) : o.ok } }

CanThrow(t) == \E g \in GenerateOutcomes(cfg, t) : ~g.ok

Thrown(t) == CHOOSE g \in GenerateOutcomes(cfg, t) : ~g.ok

Returned(json) == [ok |-> TRUE, json |-> json, error |-> "none", calls |-> 1]

\* The task of type t run to its end: generateSection throws (t in thrown), or
\* it returns the json drawn for t and the upsert throws (t in refused) or stores the row.
RunTask(t, json, thrown, refused) ==
  IF t \in thrown THEN AfterGenerate(Task("generating", "none", "none"), Thrown(t))
  ELSE AfterUpsert(AfterGenerate(Task("generating", "none", "none"), Returned(json[IndexOf(t)])),
                   t \notin refused)

\* The task that fails in Spec, by a throw of generateSection or of the upsert.
Flaky == { "OVERVIEW" }

\* The tasks that fail in SpecRun, each by a throw of generateSection or of the
\* upsert: the three critical tasks and one of the five others, which the
\* orchestrator treats alike.
Failing == { "OVERVIEW", "HEROS_JOURNEY", "EMOTION_ROLLERCOASTER", "MONEY_SHOTS" }

\* The values generateSection can return to the first n tasks, one per task.
RECURSIVE Jsons(_)
Jsons(n) ==
  IF n = 0 THEN { << >> }
  ELSE { Append(json, j) : json \in Jsons(n - 1), j \in OkJson(SECTION_TYPES[n]) }

RECURSIVE UpsertAll(_, _, _, _)
UpsertAll(rows, analysisId, tasks, i) ==
  IF i > Len(SECTION_TYPES) THEN rows
  ELSE LET t == SECTION_TYPES[i]
           next == IF tasks[t].st = "fulfilled"
                   THEN Upsert(rows, analysisId, t, tasks[t].json) ELSE rows
       IN UpsertAll(next, analysisId, tasks, i + 1)

GenerateSections(r, json, thrown, refused) ==
  /\ r.pc = "generate-sections"
  /\ thrown \cap refused = {}
  /\ \A t \in thrown : CanThrow(t)
  /\ LET tasks == [t \in SectionType |-> RunTask(t, json, thrown, refused)]
     IN /\ sections' = UpsertAll(sections, r.analysisId, tasks, 1)
        /\ runs' = Put(Take(runs, r),
                       [r EXCEPT !.pc = "check-critical", !.results = Results(tasks)])
  /\ UNCHANGED << video, transcript, analysis, events, handlers, delivered, called, fixed >>

(***************************************************************************)
(* Specifications                                                          *)
(***************************************************************************)
\* No library function is applied.
NoCall == [fn |-> "none"]

NoTask == [sectionType |-> "OVERVIEW", rs |-> << >>, task |-> Task("idle", "none", "none")]

Both == [version |-> "fallback", openai |-> TRUE, groq |-> TRUE]

Init ==
  /\ video = [v \in Videos |-> FALSE]
  /\ transcript = [v \in Videos |-> FALSE]
  /\ analysis = << >>
  /\ sections = EmptyBag
  /\ events = EmptyBag
  /\ runs = EmptyBag
  /\ handlers = EmptyBag
  /\ delivered = 0
  /\ called = 0
  /\ cfg = Both
  /\ gen = NoTask
  /\ chain = NoChain
  /\ pure = NoCall

Next ==
  \/ \E id \in 1..MaxJobs : RunPOST(id)
  \/ \E h \in BagToSet(handlers) : RunUpdate(h)
  \/ \E h \in BagToSet(handlers) : Respond(h)
  \/ \E v \in Videos : IngestPOST(v)
  \/ \E h \in BagToSet(handlers) : IngestFindTranscript(h)
  \/ \E h \in BagToSet(handlers) : IngestUpdate(h)
  \/ \E v \in Videos : TranscriptPOST(v)
  \/ \E e \in BagToSet(events), ok \in BOOLEAN : ExtractTranscript(e, ok)
  \/ \E h \in BagToSet(handlers) : SaveTranscript(h)
  \/ \E h \in BagToSet(handlers) : TriggerAnalysis(h)
  \/ \E h \in BagToSet(handlers) : TriggerUpdate(h)
  \/ \E e \in BagToSet(events), redeliver \in BOOLEAN : FetchAnalysis(e, redeliver)
  \/ \E r \in BagToSet(runs) : UpdateStatusRunning(r)
  \/ \E r \in { x \in BagToSet(runs) : x.pc = "generate-sections" } :
       \E json \in Jsons(Len(SECTION_TYPES)), failed \in SUBSET Flaky :
         \E thrown \in SUBSET failed : GenerateSections(r, json, thrown, failed \ thrown)
  \/ \E r \in BagToSet(runs) : UpdateStatusFailed(r)
  \/ \E r \in BagToSet(runs) : UpdateStatusDone(r)

Spec == Init /\ [][Next]_vars

\* One Job of a Video with a Transcript, after a run request for it: its
\* 'video/analyze' event is in the queue and is delivered once.
InitRun ==
  /\ video = [v \in Videos |-> TRUE]
  /\ transcript = [v \in Videos |-> TRUE]
  /\ analysis = << [videoId |-> 1, status |-> "RUNNING", error |-> NULL] >>
  /\ sections = EmptyBag
  /\ events = SetToBag({ AnalyzeEvent(1) })
  /\ runs = EmptyBag
  /\ handlers = EmptyBag
  /\ delivered = MaxRuns - 1
  /\ called = MaxCalls
  /\ cfg = Both
  /\ gen = NoTask
  /\ chain = NoChain
  /\ pure = NoCall

NextRun ==
  \/ \E e \in BagToSet(events) : FetchAnalysis(e, FALSE)
  \/ \E r \in BagToSet(runs) : UpdateStatusRunning(r)
  \/ \E r \in BagToSet(runs) : LaunchTasks(r)
  \/ \E r \in BagToSet(runs), t \in SectionType :
       \E g \in { o \in GenerateOutcomes(cfg, t) : o.ok \/ t \in Failing } :
         TaskGenerated(r, t, g)
  \/ \E r \in BagToSet(runs), t \in SectionType :
       \E stored \in { b \in BOOLEAN : b \/ t \in Failing } : TaskUpsert(r, t, stored)
  \/ \E r \in BagToSet(runs) : ReturnSections(r)
  \/ \E r \in BagToSet(runs) : UpdateStatusFailed(r)
  \/ \E r \in BagToSet(runs) : UpdateStatusDone(r)

SpecRun == InitRun /\ [][NextRun]_vars

(***************************************************************************)
(* One task of generate-sections on given provider responses               *)
(***************************************************************************)
\* generateSection has not returned yet.
NoResult == [ok |-> FALSE, json |-> "none", error |-> "none", calls |-> 0, requests |-> << >>]

\* const { json, markdown } = await generateSection(sectionType, ...)
GenerateTask ==
  /\ gen.task.st = "generating"
  /\ LET result == generateSection(cfg, gen.sectionType, gen.rs)
     IN gen' = [gen EXCEPT !.task = AfterGenerate(gen.task, result), !.result = result]
  /\ UNCHANGED << video, transcript, analysis, sections, events, runs, handlers,
                  delivered, called, cfg, chain, pure >>

\* await prisma.analysisSection.upsert(...); return { sectionType, success: true }
UpsertTask(stored) ==
  /\ gen.task.st = "upserting"
  /\ sections' = IF stored THEN Upsert(sections, 1, gen.sectionType, gen.task.json)
                 ELSE sections
  /\ gen' = [gen EXCEPT !.task = AfterUpsert(gen.task, stored)]
  /\ UNCHANGED << video, transcript, analysis, events, runs, handlers,
                  delivered, called, cfg, chain, pure >>

InitGen ==
  /\ video = [v \in Videos |-> TRUE]
  /\ transcript = [v \in Videos |-> TRUE]
  /\ analysis = << [videoId |-> 1, status |-> "RUNNING", error |-> NULL] >>
  /\ sections = EmptyBag
  /\ events = EmptyBag
  /\ runs = EmptyBag
  /\ handlers = EmptyBag
  /\ delivered = MaxRuns
  /\ called = MaxCalls
  /\ cfg \in Configs
  /\ \E t \in SectionType : \E rs \in ResponseSeqs(t) :
       gen = [sectionType |-> t, rs |-> rs, task |-> Task("generating", "none", "none"),
              result |-> NoResult]
  /\ chain = NoChain
  /\ pure = NoCall

NextGen ==
  \/ GenerateTask
  \/ \E stored \in BOOLEAN : UpsertTask(stored)

SpecGen == InitGen /\ [][NextGen]_vars

(***************************************************************************)
(* prisma.analysisSection.upsert on a given table, twice                   *)
(***************************************************************************)
\* The payloads of the writes and of the rows already stored.
Payloads == { "v1", "v2" }

UpsertTypes == { "OVERVIEW", "TITLE_DECODE" }

UpsertKeys == (1..MaxJobs) \X UpsertTypes

\* The tables with at most one row per (analysisId, type).
Tables ==
  { SetToBag({ Row(k[1], k[2], f[k]) : k \in present }) :
      present \in SUBSET UpsertKeys, f \in [UpsertKeys -> Payloads] }

Writes == { Row(k[1], k[2], json) : k \in UpsertKeys, json \in Payloads }

InitUpsert ==
  /\ video = [v \in Videos |-> TRUE]
  /\ transcript = [v \in Videos |-> TRUE]
  /\ analysis = [id \in 1..MaxJobs |-> [videoId |-> 1, status |-> "RUNNING", error |-> NULL]]
  /\ sections \in Tables
  /\ events = EmptyBag
  /\ runs = EmptyBag
  /\ handlers = EmptyBag
  /\ delivered = MaxRuns
  /\ called = MaxCalls
  /\ cfg = Both
  /\ gen \in [writes : [1..2 -> Writes], written : { 0 }]
  /\ chain = NoChain
  /\ pure = NoCall

\* await prisma.analysisSection.upsert(...) for the next write.
UpsertWrite ==
  /\ gen.written < Len(gen.writes)
  /\ LET w == gen.writes[gen.written + 1]
     IN sections' = Upsert(sections, w.analysisId, w.type, w.json)
  /\ gen' = [gen EXCEPT !.written = gen.written + 1]
  /\ UNCHANGED << video, transcript, analysis, events, runs, handlers, delivered, called,
                  cfg, chain, pure >>

NextUpsert == UpsertWrite

SpecUpsert == InitUpsert /\ [][NextUpsert]_vars

(***************************************************************************)
(* Run requests for one Job whose Video has a Transcript                   *)
(***************************************************************************)
\* The state after an ingest call and a transcript upload: one PENDING Job.
InitRerun ==
  /\ video = [v \in Videos |-> TRUE]
  /\ transcript = [v \in Videos |-> TRUE]
  /\ analysis = << [videoId |-> 1, status |-> "PENDING", error |-> NULL] >>
  /\ sections = EmptyBag
  /\ events = EmptyBag
  /\ runs = EmptyBag
  /\ handlers = EmptyBag
  /\ delivered = 0
  /\ called = 0
  /\ cfg = Both
  /\ gen = NoTask
  /\ chain = NoChain
  /\ pure = NoCall

\* The tasks that fail in SpecRerun: one critical task and one other.
FlakyRerun == { "OVERVIEW", "MONEY_SHOTS" }

\* The run route and the orchestrator.
NextRerun ==
  \/ RunPOST(1)
  \/ \E h \in BagToSet(handlers) : RunUpdate(h)
  \/ \E e \in BagToSet(events) : FetchAnalysis(e, FALSE)
  \/ \E r \in BagToSet(runs) : UpdateStatusRunning(r)
  \/ \E r \in { x \in BagToSet(runs) : x.pc = "generate-sections" } :
       \E json \in Jsons(Len(SECTION_TYPES)), failed \in SUBSET FlakyRerun :
         \E thrown \in SUBSET failed : GenerateSections(r, json, thrown, failed \ thrown)
  \/ \E r \in BagToSet(runs) : UpdateStatusFailed(r)
  \/ \E r \in BagToSet(runs) : UpdateStatusDone(r)

SpecRerun == InitRerun /\ [][NextRerun]_vars

(***************************************************************************)
(* One invocation of extractTranscriptWithFallback                         *)
(***************************************************************************)
\* The step of provider c.pc: skipped without its credential (the last step
\* throws instead), else attempted once.
StepOf(c) ==
  LET p == c.pc
      tried == [c EXCEPT !.attempts = Append(@, p)]
  IN IF ~HasCredential(c.env, p)
     THEN (IF p = "openai-whisper"
           THEN [c EXCEPT !.pc = "thrown", !.error = "All transcript extraction methods failed"]
           ELSE [c EXCEPT !.pc = After(p)])
     ELSE IF Outcome(p, c.rs[p]) = "return"
     THEN [tried EXCEPT !.pc = "returned", !.text = TextOf(c.rs[p]), !.source = p]
     ELSE IF Outcome(p, c.rs[p]) = "next"
     THEN [tried EXCEPT !.pc = After(p)]
     ELSE [tried EXCEPT !.pc = "thrown", !.error = "Failed to get transcript"]

InitChain ==
  /\ video = [v \in Videos |-> TRUE]
  /\ transcript = [v \in Videos |-> FALSE]
  /\ analysis = << [videoId |-> 1, status |-> "PENDING", error |-> NULL] >>
  /\ sections = EmptyBag
  /\ events = EmptyBag
  /\ runs = EmptyBag
  /\ handlers = EmptyBag
  /\ delivered = MaxRuns
  /\ called = MaxCalls
  /\ cfg = Both
  /\ gen = NoTask
  /\ \E env \in Envs, rs \in [Providers -> ChainResponses] :
       chain = [NoChain EXCEPT !.env = env, !.rs = rs, !.pc = ChainOrder[1]]
  /\ pure = NoCall

ChainStep ==
  /\ chain.pc \in Providers
  /\ chain' = StepOf(chain)
  /\ UNCHANGED << video, transcript, analysis, sections, events, runs, handlers,
                  delivered, called, cfg, gen, pure >>

NextChain == ChainStep

SpecChain == InitChain /\ [][NextChain]_vars

(***************************************************************************)
(* Module load of the analysis function, then one task                     *)
(***************************************************************************)
\* process.env as the module reads it.
LLMEnvs == [OPENAI_API_KEY : BOOLEAN, GROQ_API_KEY : BOOLEAN]

\* The clients the module creates from the environment: the fallback version
\* creates one per key that is set, the retry version only the OpenAI client.
Clients(version, env) ==
  [version |-> version,
   openai |-> env.OPENAI_API_KEY,
   groq |-> IF version = "fallback" THEN env.GROQ_API_KEY ELSE FALSE]

LoadTypes == { "OVERVIEW", "TITLE_DECODE" }

\* Top-level code of the module: create the clients, throw unless the check
\* after them passes.
LoadModule ==
  /\ gen.module = "loading"
  /\ IF Initializes(Clients(cfg.version, gen.env))
     THEN cfg' = Clients(cfg.version, gen.env) /\ gen' = [gen EXCEPT !.module = "loaded"]
     ELSE cfg' = cfg /\ gen' = [gen EXCEPT !.module = "threw"]
  /\ UNCHANGED << video, transcript, analysis, sections, events, runs, handlers,
                  delivered, called, chain, pure >>

\* A task of generate-sections calls generateSection of the loaded module.
StartTask ==
  /\ gen.module = "loaded"
  /\ gen.task.st = "idle"
  /\ gen' = [gen EXCEPT !.task = Task("generating", "none", "none")]
  /\ UNCHANGED << video, transcript, analysis, sections, events, runs, handlers,
                  delivered, called, cfg, chain, pure >>

InitLoad ==
  /\ video = [v \in Videos |-> TRUE]
  /\ transcript = [v \in Videos |-> TRUE]
  /\ analysis = << [videoId |-> 1, status |-> "RUNNING", error |-> NULL] >>
  /\ sections = EmptyBag
  /\ events = EmptyBag
  /\ runs = EmptyBag
  /\ handlers = EmptyBag
  /\ delivered = MaxRuns
  /\ called = MaxCalls
  /\ \E version \in { "retry", "fallback" } :
       cfg = [version |-> version, openai |-> FALSE, groq |-> FALSE]
  /\ \E env \in LLMEnvs : \E t \in LoadTypes : \E rs \in ResponseSeqs(t) :
       gen = [sectionType |-> t, rs |-> rs, task |-> Task("idle", "none", "none"),
              result |-> NoResult, env |-> env, module |-> "loading"]
  /\ chain = NoChain
  /\ pure = NoCall

NextLoad ==
  \/ LoadModule
  \/ StartTask
  \/ GenerateTask
  \/ \E stored \in BOOLEAN : UpsertTask(stored)

SpecLoad == InitLoad /\ [][NextLoad]_vars

(***************************************************************************)
(* The prompt builders                                                     *)
(***************************************************************************)
\* A transcript text of len characters, all alike except the one at position
\* mark (0: no such character); positions count from 1.
Text(len, mark) == [len |-> len, mark |-> mark]

Min(a, b) == IF a <= b THEN a ELSE b

substringOneMore(s, n) ==
  [len |-> Min(s.len, n + 1), mark |-> IF s.mark <= Min(s.len, n + 1) THEN s.mark ELSE 0]

\* s.substring(0, n): the first n characters of s, or s when it is shorter.
substring(s, n) ==
  [len |-> Min(s.len, n), mark |-> IF s.mark <= Min(s.len, n) THEN s.mark ELSE 0]

\* formatDuration(seconds): h:mm:ss when hours > 0, else m:ss.
formatDuration(seconds) ==
  LET hours == seconds \div 3600
      minutes == (seconds % 3600) \div 60
      secs == seconds % 60
  IN IF hours > 0 THEN << hours, minutes, secs >> ELSE << minutes, secs >>

\* count?.toLocaleString() || 'N/A', a count of null being << >>.
CountOrNA(count) == IF count = << >> THEN "N/A" ELSE count

\* url || fallback, null and the empty string being falsy.
UrlOr(url, fallback) == IF url \in { "null", "" } THEN fallback ELSE url

getHeroJourneyPrompt(context) ==
  [task |-> "Hero's Journey",
   title |-> context.video.title, channel |-> context.video.channel,
   duration |-> formatDuration(context.video.duration),
   views |-> CountOrNA(context.video.viewCount),
   transcript |-> substring(context.transcript, 8000)]

getEmotionDecoderPrompt(context) ==
  [task |-> "emotional journey",
   title |-> context.video.title, channel |-> context.video.channel,
   duration |-> formatDuration(context.video.duration),
   transcript |-> substring(context.transcript, 8000)]

getTitleDecodePrompt(context) ==
  [task |-> "title",
   title |-> context.video.title, channel |-> context.video.channel,
   views |-> CountOrNA(context.video.viewCount)]

getThumbnailXRayPrompt(context) ==
  [task |-> "thumbnail",
   title |-> context.video.title, channel |-> context.video.channel,
   thumbnailUrl |-> UrlOr(context.video.thumbnailUrl, "Not provided")]

getMoneyShotsPrompt(context) ==
  [task |-> "monetization",
   title |-> context.video.title, channel |-> context.video.channel,
   duration |-> formatDuration(context.video.duration),
   views |-> CountOrNA(context.video.viewCount),
   likes |-> CountOrNA(context.video.likeCount),
   transcript |-> substring(context.transcript, 6000)]

getContentHighlightsPrompt(context) ==
  [task |-> "highlights",
   title |-> context.video.title, channel |-> context.video.channel,
   transcript |-> substring(context.transcript, 8000)]

getFullArticlePrompt(context) ==
  [task |-> "article",
   title |-> context.video.title, channel |-> context.video.channel,
   transcript |-> substring(context.transcript, 10000)]

getOverviewPrompt(context) ==
  [task |-> "overview",
   title |-> context.video.title, channel |-> context.video.channel,
   thumbnailUrl |-> UrlOr(context.video.thumbnailUrl, "N/A"),
   transcript |-> substring(context.transcript, 6000),
   timeMarker |-> formatDuration(context.video.duration)]

\* PROMPT_FUNCTIONS[sectionType](context)
PROMPT_FUNCTIONS(sectionType, context) ==
  CASE sectionType = "OVERVIEW" -> getOverviewPrompt(context)
    [] sectionType = "HEROS_JOURNEY" -> getHeroJourneyPrompt(context)
    [] sectionType = "EMOTION_ROLLERCOASTER" -> getEmotionDecoderPrompt(context)
    [] sectionType = "MONEY_SHOTS" -> getMoneyShotsPrompt(context)
    [] sectionType = "TITLE_DECODE" -> getTitleDecodePrompt(context)
    [] sectionType = "THUMBNAIL_XRAY" -> getThumbnailXRayPrompt(context)
    [] sectionType = "CONTENT_HIGHLIGHTS" -> getContentHighlightsPrompt(context)
    [] sectionType = "FULL_ARTICLE" -> getFullArticlePrompt(context)

\* Transcript lengths and positions on both sides of every budget.
Positions == { 6000, 6001, 8000, 8001, 10000, 10001 }

Transcripts ==
  { Text(p[1], p[2]) : p \in { q \in Positions \X (Positions \cup { 0 }) : q[2] <= q[1] } }

\* Video rows as generateSection receives them.
VideoMetadata ==
  { [title |-> "a", channel |-> "c", duration |-> 75, thumbnailUrl |-> "null",
     viewCount |-> << >>, likeCount |-> << >>],
    [title |-> "a", channel |-> "c", duration |-> 3675, thumbnailUrl |-> "u",
     viewCount |-> << 1200 >>, likeCount |-> << 0 >>],
    [title |-> "b", channel |-> "c", duration |-> 75, thumbnailUrl |-> "",
     viewCount |-> << 0 >>, likeCount |-> << >>] }

\* The builder of sectionType applied to one video with transcript a and with
\* transcript b.
BuildPrompts ==
  /\ pure.fn = "prompt" /\ ~pure.built
  /\ pure' = [pure EXCEPT
                !.built = TRUE,
                !.promptA = PROMPT_FUNCTIONS(pure.sectionType,
                                             [video |-> pure.video, transcript |-> pure.a]),
                !.promptB = PROMPT_FUNCTIONS(pure.sectionType,
                                             [video |-> pure.video, transcript |-> pure.b])]
  /\ UNCHANGED << video, transcript, analysis, sections, events, runs, handlers,
                  delivered, called, cfg, gen, chain >>

InitPrompt ==
  /\ video = [v \in Videos |-> TRUE]
  /\ transcript = [v \in Videos |-> TRUE]
  /\ analysis = << [videoId |-> 1, status |-> "RUNNING", error |-> NULL] >>
  /\ sections = EmptyBag
  /\ events = EmptyBag
  /\ runs = EmptyBag
  /\ handlers = EmptyBag
  /\ delivered = MaxRuns
  /\ called = MaxCalls
  /\ cfg = Both
  /\ gen = NoTask
  /\ chain = NoChain
  /\ \E t \in SectionType, v \in VideoMetadata, a \in Transcripts, b \in Transcripts :
       pure = [fn |-> "prompt", sectionType |-> t, video |-> v, a |-> a, b |-> b,
               built |-> FALSE, promptA |-> << >>, promptB |-> << >>]

NextPrompt == BuildPrompts

SpecPrompt == InitPrompt /\ [][NextPrompt]_vars

(***************************************************************************)
(* The section validators                                                  *)
(***************************************************************************)
\* JSON values.  A number is held as its count of halves, so 100.5 is Num(201).
Num(halves) == [type |-> "number", halves |-> halves]

Str == [type |-> "string"]

Undefined == [type |-> "undefined"]

Arr(items) == [type |-> "array", items |-> items]

\* z.string()
zString(v) == v.type = "string"

\* z.number().int().min(lo).max(hi)
zInt(v, lo, hi) ==
  /\ v.type = "number"
  /\ v.halves % 2 = 0
  /\ v.halves >= 2 * lo
  /\ v.halves <= 2 * hi

\* z.array(z.string())
zStrings(v) == v.type = "array" /\ \A i \in 1..Len(v.items) : zString(v.items[i])

\* z.object({ start: z.string(), end: z.string() })
zTimeRange(v) == v.type = "object" /\ zString(v.start) /\ zString(v.end)

HeroJourneyBeatSchema(v) ==
  /\ v.type = "object"
  /\ zInt(v.number, 1, 6)
  /\ zString(v.title)
  /\ v.subtitle.type = "undefined" \/ zString(v.subtitle)
  /\ zString(v.description)
  /\ zTimeRange(v.timeRange)

HeroJourneySchemaAtLeast(v) ==
  /\ v.type = "object"
  /\ v.beats.type = "array"
  /\ Len(v.beats.items) >= 6
  /\ \A i \in 1..Len(v.beats.items) : HeroJourneyBeatSchema(v.beats.items[i])

HeroJourneySchema(v) ==
  /\ v.type = "object"
  /\ v.beats.type = "array"
  /\ Len(v.beats.items) = 6
  /\ \A i \in 1..Len(v.beats.items) : HeroJourneyBeatSchema(v.beats.items[i])

TitleDecodeSchemaNoMax(v) ==
  /\ v.type = "object"
  /\ zString(v.corePattern)
  /\ zString(v.formula)
  /\ zString(v.explanation)
  /\ v.seoScore.type = "number" /\ v.seoScore.halves % 2 = 0 /\ v.seoScore.halves >= 0

TitleDecodeSchema(v) ==
  /\ v.type = "object"
  /\ zString(v.corePattern)
  /\ zString(v.formula)
  /\ zString(v.explanation)
  /\ zInt(v.seoScore, 0, 100)

ThumbnailXRaySchema(v) ==
  /\ v.type = "object"
  /\ zString(v.composition)
  /\ zString(v.description)
  /\ zStrings(v.elements)
  /\ zString(v.promise)

OverviewSchema(v) ==
  /\ v.type = "object"
  /\ TitleDecodeSchema(v.titleDecode)
  /\ ThumbnailXRaySchema(v.thumbnailXRay)
  /\ \/ v.herosJourneySummary.type = "undefined"
     \/ /\ v.herosJourneySummary.type = "object"
        /\ \/ v.herosJourneySummary.beats.type = "undefined"
           \/ /\ zStrings(v.herosJourneySummary.beats)
              /\ Len(v.herosJourneySummary.beats.items) = 6

\* sectionSchemas[sectionType], for the four types whose payloads are drawn.
sectionSchemas(sectionType, v) ==
  CASE sectionType = "OVERVIEW" -> OverviewSchema(v)
    [] sectionType = "HEROS_JOURNEY" -> HeroJourneySchema(v)
    [] sectionType = "TITLE_DECODE" -> TitleDecodeSchema(v)
    [] sectionType = "THUMBNAIL_XRAY" -> ThumbnailXRaySchema(v)

\* schema.safeParse(v): a result object, never a throw.
safeParse(sectionType, v) ==
  [outcome |-> "returned", success |-> sectionSchemas(sectionType, v)]

\* schema.parse(v): the value, or a thrown ZodError.
parse(sectionType, v) ==
  IF sectionSchemas(sectionType, v) THEN [outcome |-> "returned", success |-> TRUE]
  ELSE [outcome |-> "thrown", success |-> FALSE]

Beat(number, title) ==
  [type |-> "object", number |-> number, title |-> title, subtitle |-> Undefined,
   description |-> Str, timeRange |-> [type |-> "object", start |-> Str, end |-> Str]]

\* The first beat of a payload: numbers 0, 1, 6, 7, 1.5 and 6.5, a string for a
\* number, and a beat without title.
FirstBeats ==
  { Beat(Num(h), Str) : h \in { 0, 2, 12, 14, 3, 13 } }
  \cup { Beat(Str, Str), Beat(Num(2), Undefined) }

\* The other beats: numbers 1, 6 and 7.
OtherBeats == { Beat(Num(h), Str) : h \in { 2, 12, 14 } }

BeatLengths == { 5, 6, 7 }

HeroJourneyPayloads ==
  UNION { { [type |-> "object", beats |-> Arr(<< first >> \o rest)] :
              first \in FirstBeats, rest \in [1..(n - 1) -> OtherBeats] } :
          n \in BeatLengths }

\* seoScore -1, 0, 0.5, 85, 100, 100.5, 101 and 150, a string, and none.
SeoScores == { Num(h) : h \in { -2, 0, 1, 170, 200, 201, 202, 300 } } \cup { Str, Undefined }

TitleDecodePayloads ==
  { [type |-> "object", corePattern |-> p, formula |-> Str, explanation |-> Str,
     seoScore |-> s] : p \in { Str, Undefined }, s \in SeoScores }

ThumbnailXRayPayloads ==
  { [type |-> "object", composition |-> Str, description |-> Str,
     elements |-> Arr(<< Str >>), promise |-> p] : p \in { Str, Undefined } }

OverviewPayloads ==
  { [type |-> "object", titleDecode |-> t, thumbnailXRay |-> x, herosJourneySummary |-> h] :
      t \in TitleDecodePayloads \cup { Undefined },
      x \in ThumbnailXRayPayloads \cup { Undefined },
      h \in { Undefined,
              [type |-> "object", beats |-> Arr(<< Str, Str, Str, Str, Str, Str >>)],
              [type |-> "object", beats |-> Arr(<< Str, Str, Str, Str, Str >>)] } }

SchemaPayloads(sectionType) ==
  CASE sectionType = "OVERVIEW" -> OverviewPayloads
    [] sectionType = "HEROS_JOURNEY" -> HeroJourneyPayloads
    [] sectionType = "TITLE_DECODE" -> TitleDecodePayloads
    [] sectionType = "THUMBNAIL_XRAY" -> ThumbnailXRayPayloads

SchemaTypes == { "OVERVIEW", "HEROS_JOURNEY", "TITLE_DECODE", "THUMBNAIL_XRAY" }

\* A test or a caller validates the payload without a throw.
SafeParse ==
  /\ pure.fn = "schema" /\ pure.call = "none"
  /\ pure' = [pure EXCEPT !.call = "safeParse",
                          !.result = safeParse(pure.sectionType, pure.value)]
  /\ UNCHANGED << video, transcript, analysis, sections, events, runs, handlers,
                  delivered, called, cfg, gen, chain >>

\* generateSection validates the payload: const validated = schema.parse(json)
Parse ==
  /\ pure.fn = "schema" /\ pure.call = "none"
  /\ pure' = [pure EXCEPT !.call = "parse",
                          !.result = parse(pure.sectionType, pure.value)]
  /\ UNCHANGED << video, transcript, analysis, sections, events, runs, handlers,
                  delivered, called, cfg, gen, chain >>

InitSchema ==
  /\ video = [v \in Videos |-> TRUE]
  /\ transcript = [v \in Videos |-> TRUE]
  /\ analysis = << [videoId |-> 1, status |-> "RUNNING", error |-> NULL] >>
  /\ sections = EmptyBag
  /\ events = EmptyBag
  /\ runs = EmptyBag
  /\ handlers = EmptyBag
  /\ delivered = MaxRuns
  /\ called = MaxCalls
  /\ cfg = Both
  /\ gen = NoTask
  /\ chain = NoChain
  /\ \E t \in SchemaTypes : \E v \in SchemaPayloads(t) :
       pure = [fn |-> "schema", sectionType |-> t, value |-> v, call |-> "none",
               result |-> [outcome |-> "none", success |-> FALSE]]

NextSchema ==
  \/ SafeParse
  \/ Parse

SpecSchema == InitSchema /\ [][NextSchema]_vars

(***************************************************************************)
(* rateLimit and the rate limit check of the ingest route                  *)
(***************************************************************************)
MaxLimit == 2

MaxRateCalls == 3

MaxRouteCalls == 6

MaxAdvances == 2

\* Keys of rateLimitMap: a caller of rateLimit and the address the ingest route
\* reads from its request.
Identifiers == { "a", "ip" }

\* Milliseconds between two readings of Date.now(): to the last millisecond of
\* a window of one second, past it, and past the window of the ingest route.
Elapses == { 1000, 1001, 60001 }

\* rateLimitMap.get(identifier) of a key that is not in the map.
NoEntry == [has |-> FALSE, count |-> 0, resetAt |-> 0]

Max(a, b) == IF a >= b THEN a ELSE b

\* rateLimit(identifier, { limit, windowSec }) at time now: the map after the
\* call and the result returned.
rateLimit(map, identifier, limit, windowSec, now) ==
  LET windowMs == windowSec * 1000
      entry == map[identifier]
  IN IF ~entry.has \/ entry.resetAt < now
     THEN [map |-> [map EXCEPT ![identifier] =
                      [has |-> TRUE, count |-> 1, resetAt |-> now + windowMs]],
           result |-> [success |-> TRUE, limit |-> limit, remaining |-> limit - 1,
                       reset |-> now + windowMs]]
     ELSE [map |-> [map EXCEPT ![identifier].count = entry.count + 1],
           result |-> [success |-> entry.count + 1 <= limit, limit |-> limit,
                       remaining |-> Max(0, limit - (entry.count + 1)),
                       reset |-> entry.resetAt]]

\* A caller applies rateLimit with the configuration under test.
RateLimitCall(identifier) ==
  /\ pure.fn = "rateLimit"
  /\ identifier # "ip"
  /\ Len(pure.log[identifier]) < MaxRateCalls
  /\ LET r == rateLimit(pure.map, identifier, pure.limit, pure.windowSec, pure.now)
     IN pure' = [pure EXCEPT !.map = r.map,
                             !.log[identifier] = Append(@, r.result)]
  /\ UNCHANGED << video, transcript, analysis, sections, events, runs, handlers,
                  delivered, called, cfg, gen, chain >>

\* POST /api/ingest: the rate limit check, then 429 or the rest of the route.
IngestRateLimited(v) ==
  /\ pure.fn = "rateLimit"
  /\ Len(pure.log["ip"]) < MaxRouteCalls
  /\ LET r == rateLimit(pure.map, "ip", 5, 60, pure.now)
     IN /\ pure' = [pure EXCEPT !.map = r.map,
                                !.log["ip"] = Append(@, r.result),
                                !.status = IF r.result.success THEN 200 ELSE 429]
        /\ IF ~r.result.success
           THEN UNCHANGED << video, analysis, events, handlers >>
           ELSE IngestAdmitted(v)
  /\ UNCHANGED << transcript, sections, runs, delivered, called, cfg, gen, chain >>

\* Time passes.
Advance(ms) ==
  /\ pure.fn = "rateLimit"
  /\ pure.advances < MaxAdvances
  /\ pure' = [pure EXCEPT !.now = @ + ms, !.advances = @ + 1]
  /\ UNCHANGED << video, transcript, analysis, sections, events, runs, handlers,
                  delivered, called, cfg, gen, chain >>

\* The interval callback: entries whose window is over are deleted.
Cleanup ==
  /\ pure.fn = "rateLimit"
  /\ \E key \in Identifiers : pure.map[key].has /\ pure.map[key].resetAt < pure.now
  /\ pure' = [pure EXCEPT !.map = [key \in Identifiers |->
                                     IF pure.map[key].has /\ pure.map[key].resetAt < pure.now
                                     THEN NoEntry ELSE pure.map[key]]]
  /\ UNCHANGED << video, transcript, analysis, sections, events, runs, handlers,
                  delivered, called, cfg, gen, chain >>

InitRate ==
  /\ video = [v \in Videos |-> FALSE]
  /\ transcript = [v \in Videos |-> FALSE]
  /\ analysis = << >>
  /\ sections = EmptyBag
  /\ events = EmptyBag
  /\ runs = EmptyBag
  /\ handlers = EmptyBag
  /\ delivered = 0
  /\ called = 0
  /\ cfg = Both
  /\ gen = NoTask
  /\ chain = NoChain
  /\ \E limit \in 0..MaxLimit, windowSec \in { 0, 1 } :
       pure = [fn |-> "rateLimit", limit |-> limit, windowSec |-> windowSec,
               now |-> 0, advances |-> 0,
               map |-> [key \in Identifiers |-> NoEntry],
               log |-> [key \in Identifiers |-> << >>],
               status |-> 0]

NextRate ==
  \/ \E identifier \in Identifiers : RateLimitCall(identifier)
  \/ \E v \in Videos : IngestRateLimited(v)
  \/ \E ms \in Elapses : Advance(ms)
  \/ Cleanup

SpecRate == InitRate /\ [][NextRate]_vars

(***************************************************************************)
(* retry                                                                   *)
(***************************************************************************)
MaxAttempts == 4

\* What one call of fn does: resolve with a value or reject with an error.
FnOutcomes == [ok : BOOLEAN, value : { "x", "y" }]

\* The delayMs arguments drawn.
DelayArguments == { 0, 10, 1000 }

\* Math.pow(2, n)
RECURSIVE pow2(_)
pow2(n) == IF n = 0 THEN 1 ELSE 2 * pow2(n - 1)

BackoffLinear(delayMs, attempt) == delayMs * attempt

\* delayMs * Math.pow(2, attempt - 1)
Backoff(delayMs, attempt) == delayMs * pow2(attempt - 1)

\* The loop test, then return await fn() or the catch up to its if.
RetryAttempt ==
  /\ pure.fn = "retry" /\ pure.pc = "loop"
  /\ pure.attempt <= pure.maxAttempts
  /\ LET outcome == pure.outcomes[pure.attempt]
     IN pure' = IF outcome.ok
                THEN [pure EXCEPT !.calls = @ + 1, !.pc = "returned", !.result = outcome.value]
                ELSE [pure EXCEPT !.calls = @ + 1, !.lastError = outcome.value,
                                  !.pc = IF pure.attempt < pure.maxAttempts
                                         THEN "delay" ELSE "loop",
                                  !.attempt = IF pure.attempt < pure.maxAttempts
                                              THEN @ ELSE @ + 1]
  /\ UNCHANGED << video, transcript, analysis, sections, events, runs, handlers,
                  delivered, called, cfg, gen, chain >>

\* await delay(delayMs * Math.pow(2, attempt - 1)); attempt++
RetryDelay ==
  /\ pure.fn = "retry" /\ pure.pc = "delay"
  /\ pure' = [pure EXCEPT !.waits = Append(@, Backoff(pure.delayMs, pure.attempt)),
                          !.attempt = @ + 1,
                          !.pc = "loop"]
  /\ UNCHANGED << video, transcript, analysis, sections, events, runs, handlers,
                  delivered, called, cfg, gen, chain >>

\* throw lastError
RetryThrow ==
  /\ pure.fn = "retry" /\ pure.pc = "loop"
  /\ ~(pure.attempt <= pure.maxAttempts)
  /\ pure' = [pure EXCEPT !.pc = "thrown", !.result = pure.lastError]
  /\ UNCHANGED << video, transcript, analysis, sections, events, runs, handlers,
                  delivered, called, cfg, gen, chain >>

InitRetry ==
  /\ video = [v \in Videos |-> TRUE]
  /\ transcript = [v \in Videos |-> TRUE]
  /\ analysis = << [videoId |-> 1, status |-> "RUNNING", error |-> NULL] >>
  /\ sections = EmptyBag
  /\ events = EmptyBag
  /\ runs = EmptyBag
  /\ handlers = EmptyBag
  /\ delivered = MaxRuns
  /\ called = MaxCalls
  /\ cfg = Both
  /\ gen = NoTask
  /\ chain = NoChain
  /\ \E maxAttempts \in 0..MaxAttempts, delayMs \in DelayArguments :
       \E outcomes \in [1..MaxAttempts -> FnOutcomes] :
         pure = [fn |-> "retry", maxAttempts |-> maxAttempts, delayMs |-> delayMs,
                 outcomes |-> outcomes, attempt |-> 1, pc |-> "loop", calls |-> 0,
                 waits |-> << >>, lastError |-> "undefined", result |-> "undefined"]

NextRetry ==
  \/ RetryAttempt
  \/ RetryDelay
  \/ RetryThrow

SpecRetry == InitRetry /\ [][NextRetry]_vars

(***************************************************************************)
(* The polling effect of the analysis page                                 *)
(***************************************************************************)
\* What a poll can meet: a status in the response, or a throw of fetch or json().
PollOutcomes == AnalysisStatus \cup { "throw" }

NextPollIntervalUncapped(pollInterval, threw) ==
  IF threw THEN pollInterval * 2 ELSE (pollInterval * 3) \div 2

\* Math.min(pollInterval * 1.5, maxInterval), and * 2 in the catch.
NextPollInterval(pollInterval, threw) ==
  Min(IF threw THEN pollInterval * 2 ELSE (pollInterval * 3) \div 2, 10000)

\* The effect runs for the status the page shows: nothing unless RUNNING,
\* else setTimeout(poll, 2000).
StartEffect ==
  /\ pure.fn = "poll" /\ pure.pc = "render"
  /\ pure' = IF pure.status # "RUNNING" THEN [pure EXCEPT !.pc = "idle"]
             ELSE [pure EXCEPT !.pc = "timer", !.timer = 2000, !.first = TRUE]
  /\ UNCHANGED << video, transcript, analysis, sections, events, runs, handlers,
                  delivered, called, cfg, gen, chain >>

\* The timer fires and poll() runs to its end.
Poll(outcome) ==
  /\ pure.fn = "poll" /\ pure.pc = "timer"
  /\ pure' =
       IF pure.attempts >= 50 THEN [pure EXCEPT !.pc = "gave-up", !.timer = 0]
       ELSE IF outcome = "throw"
       THEN [pure EXCEPT !.attempts = @ + 1, !.first = FALSE, !.threw = TRUE,
                         !.waited = pure.timer,
                         !.pollInterval = NextPollInterval(pure.pollInterval, TRUE),
                         !.timer = NextPollInterval(pure.pollInterval, TRUE)]
       ELSE IF outcome = "DONE" \/ outcome = "FAILED"
       THEN [pure EXCEPT !.attempts = @ + 1, !.first = FALSE, !.waited = pure.timer,
                         !.observed = outcome, !.pc = "refreshed", !.timer = 0]
       ELSE [pure EXCEPT !.attempts = @ + 1, !.first = FALSE, !.waited = pure.timer,
                         !.pollInterval = NextPollInterval(pure.pollInterval, FALSE),
                         !.timer = NextPollInterval(pure.pollInterval, FALSE)]
  /\ UNCHANGED << video, transcript, analysis, sections, events, runs, handlers,
                  delivered, called, cfg, gen, chain >>

\* The cleanup of the effect: clearTimeout(timeoutId) clears the first timer
\* and no later one.
CleanupEffect ==
  /\ pure.fn = "poll" /\ pure.pc \in { "timer", "idle" } /\ pure.mounted
  /\ pure' = IF pure.pc = "timer" /\ pure.first
             THEN [pure EXCEPT !.mounted = FALSE, !.pc = "cleared", !.timer = 0]
             ELSE [pure EXCEPT !.mounted = FALSE]
  /\ UNCHANGED << video, transcript, analysis, sections, events, runs, handlers,
                  delivered, called, cfg, gen, chain >>

InitPoll ==
  /\ video = [v \in Videos |-> TRUE]
  /\ transcript = [v \in Videos |-> TRUE]
  /\ sections = EmptyBag
  /\ events = EmptyBag
  /\ runs = EmptyBag
  /\ handlers = EmptyBag
  /\ delivered = MaxRuns
  /\ called = MaxCalls
  /\ cfg = Both
  /\ gen = NoTask
  /\ chain = NoChain
  /\ \E status \in AnalysisStatus :
       /\ analysis = << [videoId |-> 1, status |-> status, error |-> NULL] >>
       /\ pure = [fn |-> "poll", status |-> status, pc |-> "render", mounted |-> TRUE,
                  pollInterval |-> 2000, attempts |-> 0, timer |-> 0, first |-> FALSE,
                  waited |-> 0, threw |-> FALSE, observed |-> "none"]

NextPoll ==
  \/ StartEffect
  \/ \E outcome \in PollOutcomes : Poll(outcome)
  \/ CleanupEffect

SpecPoll == InitPoll /\ [][NextPoll]_vars

(***************************************************************************)
(* A run request and its execution under fair scheduling                   *)
(***************************************************************************)
\* One PENDING Job of a Video whose Transcript is stored; two run requests
\* and two deliveries remain.
InitLive ==
  /\ video = [v \in Videos |-> TRUE]
  /\ transcript = [v \in Videos |-> TRUE]
  /\ analysis = << [videoId |-> 1, status |-> "PENDING", error |-> NULL] >>
  /\ sections = EmptyBag
  /\ events = EmptyBag
  /\ runs = EmptyBag
  /\ handlers = EmptyBag
  /\ delivered = MaxRuns - 2
  /\ called = MaxCalls - 2
  /\ cfg = Both
  /\ gen = NoTask
  /\ chain = NoChain
  /\ pure = NoCall

\* The steps of the run route after its send.
RouteSteps == \E h \in BagToSet(handlers) : RunUpdate(h)

\* The queue hands every event to analyzeVideo once.
Delivery == \E e \in BagToSet(events) : FetchAnalysis(e, FALSE)

\* The steps of analyzeVideo after fetch-analysis.
OrchestratorSteps ==
  \/ \E r \in BagToSet(runs) : UpdateStatusRunning(r)
  \/ \E r \in { x \in BagToSet(runs) : x.pc = "generate-sections" } :
       \E json \in Jsons(Len(SECTION_TYPES)), failed \in SUBSET Flaky :
         \E thrown \in SUBSET failed : GenerateSections(r, json, thrown, failed \ thrown)
  \/ \E r \in BagToSet(runs) : UpdateStatusFailed(r)
  \/ \E r \in BagToSet(runs) : UpdateStatusDone(r)

NextLive ==
  \/ RunPOST(1)
  \/ RouteSteps
  \/ Delivery
  \/ OrchestratorSteps

\* Every awaited call returns or throws and every event is delivered: a
\* handler, the queue and an execution that can take a step take one.
Fairness ==
  /\ WF_vars(RouteSteps)
  /\ WF_vars(Delivery)
  /\ WF_vars(OrchestratorSteps)

SpecLive == InitLive /\ [][NextLive]_vars /\ Fairness

(***************************************************************************)
(* Ingest calls for a Video that is already known                          *)
(***************************************************************************)
\* The Jobs a known Video can have before an ingest call: without a
\* Transcript one PENDING Job; with one, Jobs that FAILED followed by a last
\* Job of any status.
KnownJobs(has) ==
  { jobs \in UNION { [1..n -> [videoId : Videos, status : AnalysisStatus,
                               error : { NULL, ErrorText(<< "OVERVIEW" >>) }]] :
                       n \in 1..(MaxJobs - 1) } :
      /\ \A k \in DOMAIN jobs : (jobs[k].error # NULL) <=> (jobs[k].status = "FAILED")
      /\ \A k \in DOMAIN jobs : k < Len(jobs) => jobs[k].status = "FAILED"
      /\ ~has => Len(jobs) = 1 /\ jobs[1].status = "PENDING" }

\* The Sections a Job of the given status has stored: all of them when DONE,
\* all but the failed critical one when FAILED.
StoredFor(jobs) ==
  SetToBag({ Row(id, t, t) : id \in DOMAIN jobs, t \in SectionType }
           \ { row \in { Row(id, t, t) : id \in DOMAIN jobs, t \in SectionType } :
                 \/ jobs[row.analysisId].status \in { "PENDING", "RUNNING" }
                 \/ jobs[row.analysisId].status = "FAILED" /\ row.type = "OVERVIEW" })

InitIngest ==
  /\ video = [v \in Videos |-> TRUE]
  /\ transcript \in [Videos -> BOOLEAN]
  /\ analysis \in KnownJobs(transcript[1])
  /\ sections = StoredFor(analysis)
  /\ events = SetToBag({ AnalyzeEvent(id) : id \in { k \in DOMAIN analysis :
                                                      analysis[k].status = "RUNNING" } })
  /\ runs = EmptyBag
  /\ handlers = EmptyBag
  /\ delivered = 0
  /\ called = 0
  /\ cfg = Both
  /\ gen = NoTask
  /\ chain = NoChain
  /\ pure = NoCall

\* The ingest route, a transcript upload and the orchestrator.
NextIngest ==
  \/ \E v \in Videos : IngestPOST(v)
  \/ \E h \in BagToSet(handlers) : IngestFindTranscript(h)
  \/ \E h \in BagToSet(handlers) : IngestUpdate(h)
  \/ \E v \in Videos : TranscriptPOST(v)
  \/ Delivery
  \/ OrchestratorSteps

SpecIngest == InitIngest /\ [][NextIngest]_vars

(***************************************************************************)
(* GET /api/analysis/[id]/export and the analysis page                     *)
(***************************************************************************)
\* The task types of the Sections stored for the Job.
StoredTypes(id) ==
  { t \in SectionType : \E row \in BagToSet(sections) : row.analysisId = id /\ row.type = t }

\* The Sections generateBlueprint reads from the sections map.
BlueprintTypes ==
  { "HEROS_JOURNEY", "TITLE_DECODE", "THUMBNAIL_XRAY", "EMOTION_ROLLERCOASTER", "MONEY_SHOTS" }

Response(http, blueprint, content) ==
  [http |-> http, blueprint |-> blueprint, content |-> content]

ExportResponseAnyStatus(id, threw) ==
  IF threw THEN Response(500, FALSE, {})
  ELSE IF id \notin DOMAIN analysis THEN Response(404, FALSE, {})
  ELSE Response(200, TRUE, StoredTypes(id) \cap BlueprintTypes)

\* The handler's answer: 500 from its catch, 404 'Analysis not found', 400
\* 'Analysis not complete', or the blueprint built from the stored Sections.
ExportResponse(id, threw) ==
  IF threw THEN Response(500, FALSE, {})
  ELSE IF id \notin DOMAIN analysis THEN Response(404, FALSE, {})
  ELSE IF analysis[id].status # "DONE" THEN Response(400, FALSE, {})
  ELSE Response(200, TRUE, StoredTypes(id) \cap BlueprintTypes)

\* {analysis.status === 'DONE' && renderTabContent()}: the Sections the tabs
\* can show, or the placeholder card.
TabContent(id) ==
  IF analysis[id].status = "DONE" THEN Response(200, FALSE, StoredTypes(id))
  ELSE Response(200, FALSE, {})

NoView == [fn |-> "view", kind |-> "none", id |-> 0, threw |-> FALSE,
           response |-> Response(0, FALSE, {})]

ExportGET(id, threw) ==
  /\ pure' = [fn |-> "view", kind |-> "export", id |-> id, threw |-> threw,
              response |-> ExportResponse(id, threw)]
  /\ UNCHANGED << video, transcript, analysis, sections, events, runs, handlers,
                  delivered, called, cfg, gen, chain >>

\* page.tsx answers notFound() for an unknown Job; else the component renders.
RenderPage(id) ==
  /\ id \in DOMAIN analysis
  /\ pure' = [fn |-> "view", kind |-> "page", id |-> id, threw |-> FALSE,
              response |-> TabContent(id)]
  /\ UNCHANGED << video, transcript, analysis, sections, events, runs, handlers,
                  delivered, called, cfg, gen, chain >>

\* A Video with a Transcript and Jobs of every status, as in InitIngest; one
\* run request and one delivery remain.
InitView ==
  /\ video = [v \in Videos |-> TRUE]
  /\ transcript = [v \in Videos |-> TRUE]
  /\ analysis \in KnownJobs(TRUE)
  /\ sections = StoredFor(analysis)
  /\ events = SetToBag({ AnalyzeEvent(id) : id \in { k \in DOMAIN analysis :
                                                      analysis[k].status = "RUNNING" } })
  /\ runs = EmptyBag
  /\ handlers = EmptyBag
  /\ delivered = MaxRuns - 1
  /\ called = MaxCalls - 1
  /\ cfg = Both
  /\ gen = NoTask
  /\ chain = NoChain
  /\ pure = NoView

NextView ==
  \/ \E id \in 1..MaxJobs, threw \in BOOLEAN : ExportGET(id, threw)
  \/ \E id \in 1..MaxJobs : RenderPage(id)
  \/ \E id \in 1..MaxJobs : RunPOST(id)
  \/ RouteSteps
  \/ Delivery
  \/ OrchestratorSteps

SpecView == InitView /\ [][NextView]_vars

(***************************************************************************)
(* Properties                                                              *)
(***************************************************************************)
Terminal == { "DONE", "FAILED" }

Critical == { "OVERVIEW", "HEROS_JOURNEY", "EMOTION_ROLLERCOASTER" }

\* The rows of Job id with task type t, with their multiplicity.
Copies(id, t) ==
  LET keyed == { row \in BagToSet(sections) : row.analysisId = id /\ row.type = t }
      RECURSIVE sum(_)
      sum(S) == IF S = {} THEN 0
                ELSE LET row == CHOOSE x \in S : TRUE
                     IN CopiesIn(row, sections) + sum(S \ { row })
  IN sum(keyed)

\* The task of type t succeeded according to the result array.
Succeeded(results, t) ==
  \E i \in 1..Len(results) : results[i].sectionType = t /\ results[i].success

\* C1: once a Job's status is DONE or FAILED it never changes again, whatever
\* run request, event delivery, ingest call or handoff comes later.
C1_TerminalStatusIsFinal ==
  [][\A id \in DOMAIN analysis :
       analysis[id].status \in Terminal => analysis'[id].status = analysis[id].status]_vars

\* C2: the status of a Job only moves PENDING -> RUNNING -> DONE or FAILED, and
\* the RUNNING write of a trigger (the update that follows its send) is never
\* applied to a Job that already has the terminal status of a run.
C2_TriggerWritesBeforeTerminal ==
  [][/\ \A id \in DOMAIN analysis :
          \/ analysis'[id].status = analysis[id].status
          \/ analysis[id].status = "PENDING" /\ analysis'[id].status = "RUNNING"
          \/ analysis[id].status = "RUNNING" /\ analysis'[id].status \in Terminal
     /\ \A h \in BagToSet(handlers) :
          (h.pc = "update-running" /\ CopiesIn(h, handlers') < CopiesIn(h, handlers))
            => analysis[h.id].status \notin Terminal]_vars

\* C3: the run that finishes writes DONE exactly when its results report
\* OVERVIEW, HEROS_JOURNEY and EMOTION_ROLLERCOASTER successful, whatever the
\* other five results are, and FAILED otherwise.
C3_DoneIffCriticalSucceeded ==
  [][\A r \in BagToSet(runs) :
       (r.pc = "check-critical" /\ runs' = runs (-) SetToBag({ r }))
         => analysis'[r.analysisId].status =
              IF \A t \in Critical : Succeeded(r.results, t) THEN "DONE" ELSE "FAILED"]_vars

\* A run wrote DONE although a task outside the critical three stored nothing.
C3_Witness ==
  /\ analysis[1].status = "DONE"
  /\ \E t \in SectionType \ Critical : Copies(1, t) = 0
  /\ \A t \in Critical : Copies(1, t) = 1

\* C4: the error text written with FAILED names exactly the critical task
\* types whose result in that run is a failure: all of them, no task that
\* succeeded, no task outside the critical three.
C4_ErrorNamesEveryCriticalFailure ==
  [][\A r \in BagToSet(runs) :
       (/\ r.pc = "check-critical"
        /\ runs' = runs (-) SetToBag({ r })
        /\ analysis'[r.analysisId].status = "FAILED")
         => /\ analysis'[r.analysisId].error.text
            /\ \A t \in SectionType :
                 (\E k \in 1..Len(analysis'[r.analysisId].error.failed) :
                    analysis'[r.analysisId].error.failed[k] = t)
                   <=> (t \in Critical /\ ~Succeeded(r.results, t))]_vars

\* A FAILED Job whose error text names two critical tasks, while a task outside
\* the critical three has no row either.
C4_Witness ==
  /\ analysis[1].status = "FAILED"
  /\ Len(analysis[1].error.failed) = 2
  /\ \E t \in SectionType \ Critical : Copies(1, t) = 0

C6_RunningHasTranscript ==
  \A id \in DOMAIN analysis :
    analysis[id].status \in { "RUNNING", "DONE", "FAILED" } => transcript[analysis[id].videoId]

\* The second Job of the Video, created by an ingest call after the first one
\* FAILED, is RUNNING before any execution has been started for it.
C6_Witness ==
  /\ Len(analysis) = 2
  /\ analysis[1].status = "FAILED"
  /\ analysis[2].status = "RUNNING"
  /\ \A r \in BagToSet(runs) : r.analysisId # 2

\* C7: generate-sections returns only when each of the 8 tasks has settled, its
\* result array has exactly one entry per task type and reports each task as it
\* settled; a task that fails leaves every other task of the run as it is.
C7_AllTasksSettleBeforeReturn ==
  [][\A r \in BagToSet(runs), n \in BagToSet(runs') :
       /\ (r.pc = "await-all" /\ n.pc = "check-critical")
            => /\ \A t \in SectionType : r.tasks[t].st \in { "fulfilled", "caught" }
               /\ Len(n.results) = Cardinality(SectionType)
               /\ \A t \in SectionType :
                    /\ Cardinality({ i \in 1..Len(n.results) : n.results[i].sectionType = t }) = 1
                    /\ Succeeded(n.results, t) <=> r.tasks[t].st = "fulfilled"
       /\ (r.pc = "await-all" /\ n.pc = "await-all")
            => \A t \in SectionType :
                 (r.tasks[t].st # "caught" /\ n.tasks[t].st = "caught")
                   => \A u \in SectionType \ { t } : n.tasks[u] = r.tasks[u]]_vars

\* The step has returned with a failed OVERVIEW task and a successful
\* FULL_ARTICLE task whose row is stored.
C7_Witness ==
  \E r \in BagToSet(runs) :
    /\ r.pc = "check-critical"
    /\ ~Succeeded(r.results, "OVERVIEW")
    /\ Succeeded(r.results, "FULL_ARTICLE")
    /\ Copies(r.analysisId, "FULL_ARTICLE") = 1

\* C8: a task counts as successful only once its row is stored: a fulfilled
\* task and a result with success=true each have their row, and a task whose
\* upsert throws settles as failed with the upsert's error and stores nothing.
C8_SuccessOnlyAfterUpsert ==
  [][\A n \in BagToSet(runs') :
       /\ \A t \in SectionType :
            (n.tasks[t].st = "fulfilled" \/ Succeeded(n.results, t))
              => Copies(n.analysisId, t)' >= 1
       /\ \A r \in BagToSet(runs), t \in SectionType :
            (/\ r.pc = "await-all" /\ n.pc = "await-all"
             /\ r.tasks[t].st = "upserting" /\ n.tasks[t].st # "upserting")
              => \/ n.tasks[t].st = "fulfilled" /\ Copies(n.analysisId, t)' = 1
                 \/ /\ n.tasks[t].st = "caught" /\ n.tasks[t].error = "upsert"
                    /\ sections' = sections]_vars

\* The step has returned; the MONEY_SHOTS upsert threw and is reported as a
\* failure with no row, OVERVIEW is reported successful.
C8_Witness ==
  \E r \in BagToSet(runs) :
    /\ r.pc = "check-critical"
    /\ \E i \in 1..Len(r.results) :
         /\ r.results[i].sectionType = "MONEY_SHOTS"
         /\ ~r.results[i].success /\ r.results[i].error = "upsert"
    /\ Copies(r.analysisId, "MONEY_SHOTS") = 0
    /\ Succeeded(r.results, "OVERVIEW")

\* C9: every row holds a document that conforms to the schema of the row's own
\* task type, and a task goes on to its upsert only with the document of a
\* response that had content, parsed and validated, among the calls made.
C9_OnlyValidatedPayloads ==
  /\ \A row \in BagToSet(sections) : row.json = row.type
  /\ gen.task.st \in { "upserting", "fulfilled" }
       => \E i \in 1..Len(gen.rs) :
            /\ gen.rs[i].kind = "json" /\ gen.rs[i].doc = gen.sectionType
            /\ gen.task.json = gen.rs[i].doc
  /\ (\A i \in 1..Len(gen.rs) : gen.rs[i].kind # "json" \/ gen.rs[i].doc # gen.sectionType)
       => sections = EmptyBag

\* The primary provider answered with a document of another schema, a later
\* model with a conforming one, and the row is stored.
C9_Witness ==
  /\ gen.task.st = "fulfilled"
  /\ gen.rs[1].kind = "json" /\ gen.rs[1].doc # gen.sectionType
  /\ sections # EmptyBag

\* C10: a Job never has two rows of one task type.
C10_OneSectionPerType ==
  \A id \in DOMAIN analysis, t \in SectionType : Copies(id, t) <= 1

\* Two executions for the same Job are past generate-sections at once and the
\* Job has its OVERVIEW row.
C10_Witness ==
  \E r \in BagToSet(runs) :
    /\ r.pc = "check-critical"
    /\ \/ CopiesIn(r, runs) = 2
       \/ \E o \in BagToSet(runs) : o # r /\ o.analysisId = r.analysisId /\ o.pc = "check-critical"
    /\ Copies(r.analysisId, "OVERVIEW") = 1

\* C11: each upsert leaves exactly one row for its (Job, task type), holding
\* the payload just written, so after two upserts of one pair the row holds the
\* second payload; the rows of every other pair are as they were.
C11_UpsertTwiceKeepsOneRow ==
  [][gen'.written = gen.written + 1
       => \A w \in { gen.writes[gen.written + 1] } :
             /\ Copies(w.analysisId, w.type)' = 1
             /\ CopiesIn(Row(w.analysisId, w.type, w.json), sections') = 1
             /\ \A row \in BagToSet(sections) \cup BagToSet(sections') :
                  (row.analysisId # w.analysisId \/ row.type # w.type)
                    => CopiesIn(row, sections') = CopiesIn(row, sections)]_vars

\* Two upserts of one pair with different payloads are done, the pair's row
\* holds the second payload and another pair has a row.
C11_Witness ==
  /\ gen.written = 2
  /\ gen.writes[1].analysisId = gen.writes[2].analysisId
  /\ gen.writes[1].type = gen.writes[2].type
  /\ gen.writes[1].json # gen.writes[2].json
  /\ BagIn(gen.writes[2], sections)
  /\ BagCardinality(sections) > 1

\* C12: a run that writes DONE leaves no row of a non-critical task type that
\* failed in it; with one non-critical task failed and the seven others
\* successful the Job is DONE with exactly 7 rows.
C12_DoneWithoutFailedSections ==
  [][\A r \in BagToSet(runs) :
       (/\ r.pc = "check-critical"
        /\ runs' = runs (-) SetToBag({ r })
        /\ analysis'[r.analysisId].status = "DONE")
         => /\ \A t \in SectionType \ Critical :
                 ~Succeeded(r.results, t) => Copies(r.analysisId, t)' = 0
            /\ Cardinality({ t \in SectionType : Succeeded(r.results, t) }) = 7
                 => BagCardinality(sections') = 7]_vars

\* The i-th response of the task of SpecGen has content that parses and
\* conforms to the schema of the task's type.
ValidResponse(i) == gen.rs[i].kind = "json" /\ gen.rs[i].doc = gen.sectionType

ErrorOfResponse(i) ==
  IF gen.rs[i].kind = "throw" THEN "ProviderError"
  ELSE IF gen.rs[i].kind = "empty" THEN "NoContent"
  ELSE IF gen.rs[i].kind = "text" THEN "ParseError"
  ELSE "ValidationError"

\* C14: when generateSection throws after its calls, the error thrown is the
\* error of the last call it made; the generic error is thrown only when it
\* made no call.
C14_ThrowsLastError ==
  (gen.task.st # "generating" /\ ~gen.result.ok)
    => LET n == Len(gen.result.requests)
       IN /\ n >= 1 => gen.result.error = ErrorOfResponse(n)
          /\ gen.result.error = "Generic" => n = 0

\* Every call failed, the first one by a provider error and the last one by
\* a response without content, which is the error thrown.
C14_Witness ==
  /\ gen.task.st = "caught"
  /\ Len(gen.result.requests) = 4
  /\ gen.rs[1].kind = "throw"
  /\ gen.rs[4].kind = "empty"
  /\ gen.result.error = "NoContent"

\* C15: when the first call of the retrying generateSection fails, a second
\* call is made and its prompt carries the error text of the first.
C15_RetryCarriesFixInstructions ==
  (cfg.version = "retry" /\ gen.task.st # "generating" /\ ~ValidResponse(1))
    => /\ Len(gen.result.requests) = 2
       /\ gen.result.requests[2].fix = ErrorOfResponse(1)

\* The priority order of the chain, as the specification states it.
PriorityOrder ==
  << "supadata", "groq-whisper", "assemblyai", "youtube-transcript", "openai-whisper" >>

\* Provider p needs no credential or its credential is set in the invocation
\* of SpecChain.
Configured(p) ==
  /\ p = "supadata" => chain.env.supadata
  /\ p = "groq-whisper" => chain.env.groq
  /\ p = "assemblyai" => chain.env.assemblyai
  /\ p = "openai-whisper" => chain.env.openai

PositionOf(p) == CHOOSE i \in 1..Len(PriorityOrder) : PriorityOrder[i] = p

C17_AbsentCredentialSkipped ==
  /\ \A k \in 1..Len(chain.attempts) : Configured(chain.attempts[k])
  /\ chain.pc \in Providers
       => /\ chain.attempts
               = SelectSeq(SubSeq(PriorityOrder, 1, PositionOf(chain.pc) - 1), Configured)
          /\ chain.error = "none"
  /\ chain.pc = "thrown" => chain.attempts = SelectSeq(PriorityOrder, Configured)

\* Only SUPADATA_API_KEY and OPENAI_API_KEY are set; supadata, the captions
\* and the paid fallback were attempted and the chain threw.
C17_Witness ==
  /\ chain.pc = "thrown"
  /\ chain.env.supadata /\ ~chain.env.groq /\ ~chain.env.assemblyai /\ chain.env.openai
  /\ chain.attempts = << "supadata", "youtube-transcript", "openai-whisper" >>

\* C18: openai-whisper is attempted only after the youtube-transcript attempt
\* of the invocation threw; when the youtube-transcript attempt yields text
\* the chain returns it with source 'youtube-transcript' and openai-whisper is
\* not attempted.
C18_PaidFallbackOnlyAfterCaptionFailure ==
  LET attempted(p) == \E k \in 1..Len(chain.attempts) : chain.attempts[k] = p
  IN /\ attempted("openai-whisper")
          => /\ attempted("youtube-transcript")
             /\ chain.rs["youtube-transcript"] \in { "throw", "error" }
     /\ (attempted("youtube-transcript") /\ chain.rs["youtube-transcript"] = "text")
          => /\ chain.pc = "returned"
             /\ chain.source = "youtube-transcript"
             /\ ~attempted("openai-whisper")

\* Only OPENAI_API_KEY is set and the captions were returned, although the
\* paid fallback would have produced text too.
C18_Witness ==
  /\ chain.pc = "returned" /\ chain.source = "youtube-transcript"
  /\ chain.env.openai /\ ~chain.env.supadata /\ ~chain.env.groq /\ ~chain.env.assemblyai
  /\ chain.rs["youtube-transcript"] = "text" /\ chain.rs["openai-whisper"] = "text"
  /\ chain.attempts = << "youtube-transcript" >>

\* C19: the chain returns only with the text of an attempt that yielded text,
\* and it throws when every attempt it made failed (threw, reported an error
\* or yielded empty text); so without credentials and with the captions
\* failing it throws.
C19_RaisesWhenEveryAttemptFailed ==
  LET yielded == \E k \in 1..Len(chain.attempts) : chain.rs[chain.attempts[k]] = "text"
  IN /\ chain.pc = "returned" => yielded
     /\ (chain.pc \in { "returned", "thrown" } /\ ~yielded) => chain.pc = "thrown"

\* C20: an attempt that yields empty text is never the one the chain returns
\* from, so the text of a returned result is not empty.
C20_EmptyResultFallsThrough ==
  chain.pc = "returned"
    => /\ chain.text # ""
       /\ chain.rs[chain.source] # "empty"

\* C21: in the handoff of a Video, save-transcript leaves the Transcript stored
\* and goes on to trigger-analysis; trigger-analysis changes no Job and, when
\* the Video has PENDING Jobs, emits one analyze event for the most recently
\* created of them, else emits nothing and ends; the update after the send
\* sets that Job to RUNNING and changes no other Job.
C21_HandoffAfterChainSuccess ==
  [][\A h \in BagToSet(handlers) :
       (h.route = "extract" /\ CopiesIn(h, handlers') < CopiesIn(h, handlers))
         => LET pending == { id \in DOMAIN analysis :
                              analysis[id].videoId = h.id /\ analysis[id].status = "PENDING" }
                latest == CHOOSE id \in pending : \A other \in pending : other <= id
            IN /\ h.pc = "save-transcript"
                    => /\ transcript'[h.id]
                       /\ \E n \in BagToSet(handlers') :
                            /\ n.route = "extract" /\ n.pc = "trigger-analysis" /\ n.id = h.id
                            /\ CopiesIn(n, handlers') > CopiesIn(n, handlers)
               /\ h.pc = "trigger-analysis"
                    => /\ analysis' = analysis
                       /\ IF pending # {}
                          THEN events' = events (+) SetToBag({ [name |-> "video/analyze", id |-> latest] })
                          ELSE events' = events /\ handlers' = handlers (-) SetToBag({ h })
               /\ h.pc = "update-running"
                    => /\ analysis' = [analysis EXCEPT ![h.id].status = "RUNNING"]
                       /\ events' = events]_vars

\* The critical types among the failed results, whatever error each carries.
FailedCriticalTypes(results) ==
  LET failed(name) == \E i \in 1..Len(results) :
                        results[i].sectionType = name /\ ~results[i].success
  IN SelectSeq(<< "OVERVIEW", "HEROS_JOURNEY", "EMOTION_ROLLERCOASTER" >>, failed)

\* C22: a Job is created with error null, and a step that changes the error
\* field of a Job is the step of a run of that Job that has critical failures
\* and writes the fixed text over the failed critical type names, a value that
\* depends on which critical tasks failed and not on the error each one carries.
C22_ErrorFieldOnlyFixedText ==
  [][\A id \in DOMAIN analysis' :
       IF id \notin DOMAIN analysis THEN ~analysis'[id].error.text
       ELSE analysis'[id].error # analysis[id].error
              => \E r \in BagToSet(runs) :
                   /\ r.analysisId = id /\ r.pc = "check-critical"
                   /\ FailedCriticalTypes(r.results) # << >>
                   /\ analysis'[id].error.text
                   /\ analysis'[id].error.failed = FailedCriticalTypes(r.results)]_vars

\* After two runs of a Job, the second with its OVERVIEW task failed, the Job
\* is FAILED and its error names that task alone.
C22_Witness ==
  \E id \in DOMAIN analysis :
    /\ analysis[id].status = "FAILED"
    /\ analysis[id].error.text
    /\ analysis[id].error.failed = << "OVERVIEW" >>
    /\ delivered = 2 /\ runs = EmptyBag

\* C23: the module loads exactly when OPENAI_API_KEY or GROQ_API_KEY is set,
\* and when exactly one of the two is set every call generateSection makes
\* goes to the provider of that key.
C23_InitializesIffAnyCredential ==
  gen.module # "loading"
    => /\ gen.module = "loaded" <=> (gen.env.OPENAI_API_KEY \/ gen.env.GROQ_API_KEY)
       /\ (gen.env.OPENAI_API_KEY /\ ~gen.env.GROQ_API_KEY)
            => \A k \in 1..Len(gen.result.requests) : gen.result.requests[k].model = "gpt-4o"
       /\ (gen.env.GROQ_API_KEY /\ ~gen.env.OPENAI_API_KEY)
            => \A k \in 1..Len(gen.result.requests) :
                 gen.result.requests[k].model
                   \in { "llama-3.1-70b-versatile", "llama-3.1-8b-instant", "mixtral-8x7b-32768" }

\* The character of text s at position i, "end" past its last character.
CharAt(s, i) == IF i > s.len THEN "end" ELSE IF i = s.mark THEN "x" ELSE "-"

\* Texts s and t agree on every position up to n: they can differ only at a
\* mark or right after the end of the shorter one.
EqualOnFirst(s, t, n) ==
  \A i \in { s.mark, t.mark, Min(s.len, t.len) + 1 } :
    (1 <= i /\ i <= n) => CharAt(s, i) = CharAt(t, i)

\* C24: the prompts built for one video and two transcripts are identical when
\* the transcripts agree on their first 8000 characters (HEROS_JOURNEY,
\* EMOTION_ROLLERCOASTER, CONTENT_HIGHLIGHTS), first 6000 (MONEY_SHOTS,
\* OVERVIEW), first 10000 (FULL_ARTICLE), and always for TITLE_DECODE and
\* THUMBNAIL_XRAY.
C24_PromptDependsOnTranscriptPrefix ==
  (pure.fn = "prompt" /\ pure.built)
    => LET t == pure.sectionType
       IN /\ t \in { "HEROS_JOURNEY", "EMOTION_ROLLERCOASTER", "CONTENT_HIGHLIGHTS" }
               /\ EqualOnFirst(pure.a, pure.b, 8000) => pure.promptA = pure.promptB
          /\ t \in { "MONEY_SHOTS", "OVERVIEW" } /\ EqualOnFirst(pure.a, pure.b, 6000)
               => pure.promptA = pure.promptB
          /\ t = "FULL_ARTICLE" /\ EqualOnFirst(pure.a, pure.b, 10000)
               => pure.promptA = pure.promptB
          /\ t \in { "TITLE_DECODE", "THUMBNAIL_XRAY" } => pure.promptA = pure.promptB

\* Two transcripts that differ first at character 6001 give one OVERVIEW prompt.
C24_Witness ==
  /\ pure.fn = "prompt" /\ pure.built
  /\ pure.sectionType = "OVERVIEW"
  /\ pure.a = Text(10001, 6001) /\ pure.b = Text(8000, 0)
  /\ pure.promptA = pure.promptB

\* C25: safeParse of a HEROS_JOURNEY payload returns a result and never throws,
\* and it returns success only for a beats array of exactly 6 elements whose
\* numbers are all integers from 1 to 6.
C25_HeroJourneyExactlySixBeats ==
  (pure.fn = "schema" /\ pure.sectionType = "HEROS_JOURNEY" /\ pure.call = "safeParse")
    => /\ pure.result.outcome = "returned"
       /\ pure.result.success
            => /\ Len(pure.value.beats.items) = 6
               /\ \A i \in 1..Len(pure.value.beats.items) :
                    /\ pure.value.beats.items[i].number.type = "number"
                    /\ pure.value.beats.items[i].number.halves \in { 2, 4, 6, 8, 10, 12 }

\* Seven beats numbered within 1..6 come back from safeParse as a failure.
C25_Witness ==
  /\ pure.fn = "schema" /\ pure.sectionType = "HEROS_JOURNEY" /\ pure.call = "safeParse"
  /\ Len(pure.value.beats.items) = 7
  /\ \A i \in 1..7 : pure.value.beats.items[i] \in { Beat(Num(2), Str), Beat(Num(12), Str) }
  /\ pure.result.outcome = "returned" /\ ~pure.result.success

\* A seoScore that is an integer from 0 to 100.
SeoScoreInRange(s) == s.type = "number" /\ \E n \in 0..100 : s.halves = 2 * n

\* C26: a TITLE_DECODE payload whose other required fields are strings is
\* accepted exactly when its seoScore is an integer from 0 to 100; an OVERVIEW
\* payload is accepted only when the seoScore of its titleDecode part is, and
\* the parse of generateSection throws on one whose seoScore is not.
C26_SeoScoreIntegerZeroToHundred ==
  (pure.fn = "schema" /\ pure.call # "none")
    => /\ (pure.sectionType = "TITLE_DECODE" /\ pure.value.corePattern.type = "string"
           /\ pure.value.formula.type = "string" /\ pure.value.explanation.type = "string")
            => (pure.result.success <=> SeoScoreInRange(pure.value.seoScore))
       /\ (pure.sectionType = "OVERVIEW" /\ pure.result.success)
            => /\ pure.value.titleDecode.type = "object"
               /\ SeoScoreInRange(pure.value.titleDecode.seoScore)
       /\ (pure.sectionType = "OVERVIEW" /\ pure.call = "parse"
           /\ pure.value.titleDecode.type = "object"
           /\ ~SeoScoreInRange(pure.value.titleDecode.seoScore))
            => pure.result.outcome = "thrown"

\* An OVERVIEW payload, valid but for a seoScore of 101, makes parse throw.
C26_Witness ==
  /\ pure.fn = "schema" /\ pure.sectionType = "OVERVIEW" /\ pure.call = "parse"
  /\ pure.value.titleDecode.type = "object"
  /\ pure.value.titleDecode.corePattern = Str
  /\ pure.value.titleDecode.seoScore = Num(202)
  /\ pure.value.thumbnailXRay.type = "object"
  /\ pure.value.thumbnailXRay.promise = Str
  /\ pure.value.herosJourneySummary = Undefined
  /\ pure.result.outcome = "thrown"

\* The number of results of a log that grant a call in the window ending at reset.
Granted(log, reset) ==
  Cardinality({ k \in 1..Len(log) : log[k].success /\ log[k].reset = reset })

\* C27: among the results returned for one identifier and one window, at most
\* limit have success true, for the callers' limit and for the 5 of the ingest
\* route; and a request the ingest route refuses is answered 429 with every
\* Video, Job, event and handler as before.
C27_AtMostLimitPerWindow ==
  [][/\ \A key \in Identifiers : \A k \in 1..Len(pure.log[key]') :
          Granted(pure.log[key]', pure.log[key][k]'.reset)
            <= (IF key = "ip" THEN 5 ELSE pure.limit)
     /\ (/\ Len(pure.log["ip"]') > Len(pure.log["ip"])
         /\ ~pure.log["ip"][Len(pure.log["ip"])]'.success)
          => /\ pure.status' = 429
             /\ video' = video /\ analysis' = analysis
             /\ events' = events /\ handlers' = handlers]_vars

\* C28: every call of fn before the last one made failed; the k-th wait is
\* delayMs * 2^(k-1) and follows the k-th failure; retry returns the value of
\* the first call that succeeds, having waited once per earlier failure; it
\* throws after exactly maxAttempts failed calls, with the error of the last
\* one and one wait fewer than calls.
C28_RetryUntilFirstSuccess ==
  pure.fn = "retry"
    => /\ pure.calls <= pure.maxAttempts
       /\ \A k \in 1..(pure.calls - 1) : ~pure.outcomes[k].ok
       /\ Len(pure.waits) <= pure.calls
       /\ \A k \in 1..Len(pure.waits) :
            ~pure.outcomes[k].ok /\ pure.waits[k] = pure.delayMs * 2^(k - 1)
       /\ pure.pc = "returned"
            => /\ pure.outcomes[pure.calls].ok
               /\ pure.result = pure.outcomes[pure.calls].value
               /\ Len(pure.waits) = pure.calls - 1
       /\ pure.pc = "thrown"
            => /\ pure.calls = pure.maxAttempts
               /\ \A k \in 1..pure.calls : ~pure.outcomes[k].ok
               /\ pure.maxAttempts >= 1
                    => /\ pure.result = pure.outcomes[pure.maxAttempts].value
                       /\ Len(pure.waits) = pure.maxAttempts - 1

\* Four attempts with different errors fail; retry throws the fourth error
\* after waits of 10, 20 and 40 milliseconds.
C28_Witness ==
  /\ pure.fn = "retry" /\ pure.pc = "thrown"
  /\ pure.maxAttempts = 4 /\ pure.delayMs = 10
  /\ pure.calls = 4
  /\ pure.outcomes[3].value = "x" /\ pure.outcomes[4].value = "y"
  /\ pure.result = "y"
  /\ pure.waits = << 10, 20, 40 >>

\* C29: the effect polls only for a page showing RUNNING and at most 50 times;
\* the first poll comes 2000 ms after the effect ran; every timer set is of at
\* most 10000 ms; and after a poll that observed DONE or FAILED no timer is
\* pending and no further poll is made, whether or not an earlier poll threw.
C29_PollingBounded ==
  [][pure.fn = "poll"
       => /\ pure.attempts' <= 50
          /\ pure.attempts' > 0 => pure.status = "RUNNING"
          /\ (pure.attempts = 0 /\ pure.attempts' = 1) => pure.waited' = 2000
          /\ pure.timer' <= 10000 /\ pure.waited' <= 10000
          /\ pure.observed \in { "DONE", "FAILED" }
               => pure.timer = 0 /\ pure.attempts' = pure.attempts
          /\ pure.observed' \in { "DONE", "FAILED" } => pure.timer' = 0]_vars

\* The 50th poll, 10 seconds after the 49th and after a poll that threw,
\* observes DONE and sets no timer.
C29_Witness ==
  /\ pure.fn = "poll" /\ pure.attempts = 50 /\ pure.threw
  /\ pure.waited = 10000
  /\ pure.observed = "DONE" /\ pure.timer = 0 /\ pure.pc = "refreshed"

\* The executions of analyzeVideo for Job id that are past their RUNNING write
\* and before their terminal write.
InProgress(id) ==
  { r \in BagToSet(runs) : r.analysisId = id /\ r.pc # "update-status-running" }

\* C30: a Job has at most one execution between its RUNNING write and its
\* terminal write, and an execution never writes a terminal status over a
\* different terminal status of the Job.
C30_OneExecutionPerJob ==
  [][/\ \A id \in DOMAIN analysis' :
          /\ Cardinality(InProgress(id)') <= 1
          /\ \A r \in InProgress(id)' : CopiesIn(r, runs') <= 1
     /\ \A r \in BagToSet(runs) :
          (/\ r.pc = "check-critical"
           /\ CopiesIn(r, runs') < CopiesIn(r, runs)
           /\ analysis[r.analysisId].status \in Terminal)
            => analysis'[r.analysisId].status = analysis[r.analysisId].status]_vars

\* C31: under fair scheduling, every Job for which a 'video/analyze' event was
\* sent eventually has status DONE or FAILED and keeps it for good.
C31_TriggeredJobEndsTerminal ==
  \A id \in 1..MaxJobs :
    (id \in DOMAIN analysis /\ BagIn(AnalyzeEvent(id), events))
      ~> [](id \in DOMAIN analysis /\ analysis[id].status \in Terminal)

\* C32: a Job carries an error text only while its status is FAILED; a Job that
\* is PENDING, RUNNING or DONE has none, also after a FAILED Job is run again.
C32_ErrorTextOnlyWhenFailed ==
  \A id \in DOMAIN analysis :
    analysis[id].error # NULL => analysis[id].status = "FAILED"

\* The Job has a stored Section of type t.
HasSection(id, t) == \E row \in BagToSet(sections) : row.analysisId = id /\ row.type = t

\* C33: a Job whose status is DONE has stored Sections for OVERVIEW,
\* HEROS_JOURNEY and EMOTION_ROLLERCOASTER, and a Job whose status is PENDING
\* has no Section of any type.
C33_DoneHasCriticalPendingHasNone ==
  \A id \in DOMAIN analysis :
    /\ analysis[id].status = "DONE" =>
         \A t \in { "OVERVIEW", "HEROS_JOURNEY", "EMOTION_ROLLERCOASTER" } : HasSection(id, t)
    /\ analysis[id].status = "PENDING" =>
         \A t \in SectionType : ~HasSection(id, t)

\* A second Job of the Video is PENDING without Sections while the first,
\* FAILED when the second was created, is DONE with all its Sections stored.
C33_Witness ==
  /\ Len(analysis) = 2
  /\ analysis[1].status = "DONE"
  /\ analysis[2].status = "PENDING"
  /\ \A t \in SectionType : HasSection(1, t) /\ ~HasSection(2, t)

\* The number of calls of the task of SpecGen made to the model.
CallsTo(model) ==
  Cardinality({ k \in 1..Len(gen.result.requests) : gen.result.requests[k].model = model })

C35_HandoffTriggerOnlyAfterSave ==
  [][/\ \A h \in BagToSet(handlers) :
          (h.route = "extract" /\ CopiesIn(h, handlers') < CopiesIn(h, handlers))
            => /\ (h.pc = "save-transcript" /\ transcript[h.id])
                    => /\ handlers' = handlers (-) SetToBag({ h })
                       /\ UNCHANGED << analysis, events, runs, transcript >>
               /\ (h.pc = "save-transcript" /\ ~transcript[h.id])
                    => transcript'[h.id] /\ UNCHANGED << analysis, events, runs >>
               /\ h.pc = "trigger-analysis" => transcript[h.id]
               /\ h.pc = "update-running" => transcript[analysis[h.id].videoId]
     /\ \A e \in BagToSet(events) :
          e.name = "video/analyze"
            => e.id \in DOMAIN analysis /\ transcript[analysis[e.id].videoId]]_vars

\* The chain returned a transcript for a Video whose PENDING Job still waits,
\* and a Transcript was uploaded meanwhile: save-transcript is about to throw.
C35_Witness ==
  \E h \in BagToSet(handlers) :
    /\ h.route = "extract" /\ h.pc = "save-transcript"
    /\ transcript[h.id]
    /\ \E id \in DOMAIN analysis : analysis[id].videoId = h.id /\ analysis[id].status = "PENDING"

C37_ContentOnlyWhenDone ==
  [][pure' # pure
       => \A id \in { pure'.id } :
            LET known == id \in DOMAIN analysis
                done == known /\ analysis[id].status = "DONE"
                r == pure'.response
            IN /\ pure'.kind = "export"
                    => /\ r.blueprint => done
                       /\ r.content # {} => done
                       /\ ~pure'.threw
                            => /\ r.http = (IF ~known THEN 404 ELSE IF done THEN 200 ELSE 400)
                               /\ r.blueprint <=> r.http = 200
               /\ pure'.kind = "page"
                    => /\ known
                       /\ r.content # {} => done
                       /\ done => r.content = StoredTypes(id)]_vars

\* The page was rendered for a Job that is not DONE while Sections of it are
\* stored: none of them is shown.
C37_Witness ==
  /\ pure.fn = "view" /\ pure.kind = "page"
  /\ pure.id \in DOMAIN analysis
  /\ analysis[pure.id].status \in { "RUNNING", "FAILED" }
  /\ StoredTypes(pure.id) # {}
  /\ pure.response.content = {}

\* C38: every result of rateLimit has 0 <= remaining <= limit and has success
\* true exactly when the count of the identifier's window, this call included,
\* is at most limit; a call made strictly after resetAt starts a window with
\* count 1, a call made up to resetAt counts in the window it finds, and a
\* call changes the entry of no other identifier.
C38_RateLimitResultAndWindows ==
  [][\A key \in Identifiers :
       Len(pure.log[key]') > Len(pure.log[key])
         => \A before \in { pure.map[key] } : \A now \in { pure.now } :
              LET limit == IF key = "ip" THEN 5 ELSE pure.limit
                  windowMs == (IF key = "ip" THEN 60 ELSE pure.windowSec) * 1000
                  result == pure.log[key][Len(pure.log[key])]'
                  after == pure.map[key]'
              IN /\ 0 <= result.remaining /\ result.remaining <= limit
                 /\ result.success <=> after.count <= limit
                 /\ (~before.has \/ now > before.resetAt)
                      => after.count = 1 /\ after.resetAt = now + windowMs
                 /\ (before.has /\ now <= before.resetAt)
                      => after.count = before.count + 1 /\ after.resetAt = before.resetAt
                 /\ result.reset = after.resetAt
                 /\ \A other \in Identifiers \ { key } :
                      pure.map[other]' = pure.map[other]]_vars

\* C39: once the effect is cleaned up, no step issues a status poll and no
\* step sets a timer, whether the cleanup came before the first poll or later
\* in the sequence.
C39_NoPollAfterCleanup ==
  [][(pure.fn = "poll" /\ ~pure.mounted)
       => /\ pure.attempts' = pure.attempts
          /\ pure.timer' = 0 \/ pure.timer' = pure.timer]_vars

====
